---- MODULE Spec2Model ----
(***************************************************************************)
(* A model of CORE_JS: the reference filters, Core_DataSource with its     *)
(* contexts, views and notifications, Core_ViewManager, and the services   *)
(* and components around them.                                             *)
(*                                                                         *)
(* Each component has its own specification over the shared variables:     *)
(*   SpecFilter    one filter instance (activeOrNot, test)                 *)
(*   Spec          one Core_DataSource, driven through its public methods  *)
(*   SpecVM        one Core_ViewManager                                    *)
(*   SpecRepo      one Core_DataRepository                                 *)
(*   SpecBds       one Core_BrowserDataSource                              *)
(*   SpecZip       Core_ZipService                                         *)
(*   SpecResource  Core_ResourceService                                    *)
(*   SpecPipe      the data pipeline from repository to view               *)
(*   SpecElt       one Core_HTMLElement and its subscriptions              *)
(*   SpecLang      Core_LangService and the answers of the language API    *)
(*   SpecRouter    Core_Router                                             *)
(*   SpecGrid      one Core_AgGridViewManager                              *)
(*   SpecAc        one AutocompleteComponent, its timer and its searches   *)
(* Each public method is one action: JavaScript runs every call to         *)
(* completion before the next one starts.  A call that throws leaves the   *)
(* state as it was at the throw; call.raised records it.                   *)
(***************************************************************************)
EXTENDS Integers, Sequences, FiniteSets, TLC

VARIABLES
    ds,      \* the Core_DataSource instance (its private fields)
    flt,     \* the filter instance of SpecFilter
    vm,      \* the Core_ViewManager instance
    repo,    \* the Core_DataRepository instance
    bds,     \* the Core_BrowserDataSource instance
    zip,     \* the Core_ZipService instance and the context it handed out
    res,     \* the Core_ResourceService instance
    pipe,    \* a Core_DataRepository feeding two chained Core_BrowserDataSource
    elt,     \* a Core_HTMLElement, its subscriptions and the subjects it listens to
    lang,    \* the Core_LangService instance, the lock it takes and its requests in flight
    rtr,     \* a Core_Router, the URL and the child component it displays
    grid,    \* a Core_AgGridViewManager and the rows it handed to the grid
    ac,      \* an AutocompleteComponent, its timer and its searches in flight
    call     \* the last call made: method, arguments, outcome, notifications

vars == <<ds, flt, vm, repo, bds, zip, res, pipe, elt, lang, rtr, grid, ac, call>>

\* what a call on one instance leaves alone: the other instances
exceptDataSource == <<flt, vm, repo, bds, zip, res, pipe, elt, lang, rtr, grid, ac>>
exceptFilter == <<ds, vm, repo, bds, zip, res, pipe, elt, lang, rtr, grid, ac>>
exceptViewManager == <<ds, flt, repo, bds, zip, res, pipe, elt, lang, rtr, grid, ac>>
exceptRepository == <<ds, flt, vm, bds, zip, res, pipe, elt, lang, rtr, grid, ac>>
exceptBrowserDataSource == <<ds, flt, vm, repo, zip, res, pipe, elt, lang, rtr, grid, ac>>
exceptZipService == <<ds, flt, vm, repo, bds, res, pipe, elt, lang, rtr, grid, ac>>
exceptResourceService == <<ds, flt, vm, repo, bds, zip, pipe, elt, lang, rtr, grid, ac>>
exceptPipeline == <<ds, flt, vm, repo, bds, zip, res, elt, lang, rtr, grid, ac>>
exceptHTMLElement == <<ds, flt, vm, repo, bds, zip, res, pipe, lang, rtr, grid, ac>>
exceptLangService == <<ds, flt, vm, repo, bds, zip, res, pipe, elt, rtr, grid, ac>>
exceptRouter == <<ds, flt, vm, repo, bds, zip, res, pipe, elt, lang, grid, ac>>
exceptAgGridViewManager == <<ds, flt, vm, repo, bds, zip, res, pipe, elt, lang, rtr, ac>>
exceptAutocomplete == <<ds, flt, vm, repo, bds, zip, res, pipe, elt, lang, rtr, grid>>

-----------------------------------------------------------------------------
(* Bounds of the model.                                                    *)

MaxKey == 2          \* primary keys are 1..MaxKey
MaxBatch == 2        \* a batch handed to dataUpdated holds at most MaxBatch records
MaxCalls == 4        \* a Core_DataSource is followed for MaxCalls calls
MaxRows == 5         \* Core_ViewManager data sets have at most MaxRows rows
VMPageSize == 2      \* the page size the Core_ViewManager is constructed with

-----------------------------------------------------------------------------
(* JavaScript values that reach the filters: strings are sequences of      *)
(* one-character strings, so that trim, toLowerCase and includes are       *)
(* computed and not assumed.                                               *)

JStr(s) == [t |-> "string", s |-> s, n |-> 0]
JNum(n) == [t |-> "number", s |-> <<>>, n |-> n]
JNaN == [t |-> "NaN", s |-> <<>>, n |-> 0]
JNull == [t |-> "null", s |-> <<>>, n |-> 0]
JUndefined == [t |-> "undefined", s |-> <<>>, n |-> 0]

\* String.prototype.toLowerCase on the alphabet the model uses
LowerChar(c) ==
    CASE c = "A" -> "a"
      [] c = "B" -> "b"
      [] OTHER -> c

ToLowerCase(s) == [i \in DOMAIN s |-> LowerChar(s[i])]

RECURSIVE TrimStart(_)
TrimStart(s) ==
    IF s = <<>> THEN s
    ELSE IF Head(s) = " " THEN TrimStart(Tail(s)) ELSE s

RECURSIVE TrimEnd(_)
TrimEnd(s) ==
    IF s = <<>> THEN s
    ELSE IF s[Len(s)] = " " THEN TrimEnd(SubSeq(s, 1, Len(s) - 1)) ELSE s

\* String.prototype.trim
Trim(s) == TrimEnd(TrimStart(s))

\* String.prototype.includes
Includes(s, sub) ==
    \E i \in 0..(Len(s) - Len(sub)) : SubSeq(s, i + 1, i + Len(sub)) = sub

Digits == <<"0", "1", "2", "3", "4", "5", "6", "7", "8", "9">>

\* Number.prototype.toString for the one-digit numbers of the model
NumToString(n) == <<Digits[n + 1]>>

\* (value ?? '').toString()
ToStringOrEmpty(v) ==
    CASE v.t = "string" -> v.s
      [] v.t = "number" -> NumToString(v.n)
      [] OTHER -> <<>>

\* Number(string): '' and blanks are 0, one digit is its value, the rest NaN
StringToNumber(s) ==
    LET t == Trim(s) IN
    IF t = <<>> THEN JNum(0)
    ELSE IF Len(t) = 1 /\ \E d \in 1..10 : Digits[d] = t[1]
         THEN JNum((CHOOSE d \in 1..10 : Digits[d] = t[1]) - 1)
         ELSE JNaN

\* The == operator of JavaScript on strings and numbers
LooseEq(a, b) ==
    CASE a.t = "number" /\ b.t = "number" -> a.n = b.n
      [] a.t = "string" /\ b.t = "string" -> a.s = b.s
      [] a.t = "string" /\ b.t = "number" ->
            LET x == StringToNumber(a.s) IN x.t = "number" /\ x.n = b.n
      [] a.t = "number" /\ b.t = "string" ->
            LET x == StringToNumber(b.s) IN x.t = "number" /\ x.n = a.n
      [] OTHER -> FALSE

-----------------------------------------------------------------------------
(* Records (lines).  Every line has the primary key id, a string column    *)
(* name and a numeric column age.                                          *)

Ann == <<"A", "n", "n">>
Bob == <<"B", "o", "b">>

Names == {Ann, Bob}

Line(id, name, age) == [id |-> id, name |-> name, age |-> age]

\* the lines offered to the data source: key 1 is Ann aged 0 or Bob aged 1,
\* every other key is Ann aged 0
Lines == {Line(1, Ann, 0), Line(1, Bob, 1)} \cup {Line(i, Ann, 0) : i \in 2..MaxKey}

\* line[columnKey] as a JavaScript value
Column(line, columnKey) ==
    CASE columnKey = "name" -> JStr(line.name)
      [] columnKey = "age" -> JNum(line.age)
      [] columnKey = "id" -> JNum(line.id)
      [] OTHER -> JUndefined

-----------------------------------------------------------------------------
(* Core_StringFilter.  The WILDCARDS levels (regular expressions) are not  *)
(* modelled; the filter is given string values only.                       *)

EQUALS == 1
LIKE == 2

StringFilterDefaultParams ==
    [comparisonLevel |-> EQUALS, testCase |-> FALSE, trimValue |-> TRUE]

Core_StringFilter(comparisonLevel, testCase, trimValue, columnKey) ==
    [class |-> "Core_StringFilter",
     comparisonLevel |-> comparisonLevel, testCase |-> testCase,
     trimValue |-> trimValue, dontTestZero |-> FALSE, columnKey |-> columnKey,
     value |-> JNull, filterValue |-> JNull]

\* activeOrNot(targetValue): the filter afterwards and the value returned
Core_StringFilter_activeOrNot(f, targetValue) ==
    LET trimmed == IF f.trimValue THEN Trim(targetValue.s) ELSE targetValue.s
        folded == IF trimmed # <<>> /\ f.testCase = FALSE
                  THEN ToLowerCase(trimmed) ELSE trimmed
    IN [filter |-> [f EXCEPT !.filterValue = targetValue, !.value = JStr(folded)],
        ret |-> (folded # <<>>),
        raised |-> FALSE]

\* String.prototype.compareTo does not exist: calling it is a TypeError
StringCompareTo(testValue, value) == [ret |-> FALSE, raised |-> TRUE]

\* test(line): the value returned, or raised
Core_StringFilter_test(f, line) ==
    LET testValue == ToStringOrEmpty(Column(line, f.columnKey)) IN
    CASE f.comparisonLevel = LIKE ->
            [ret |-> Includes(IF f.testCase = FALSE THEN ToLowerCase(testValue)
                              ELSE testValue,
                              f.value.s),
             raised |-> FALSE]
      [] f.comparisonLevel = EQUALS -> StringCompareTo(testValue, f.value.s)
      [] OTHER -> [ret |-> FALSE, raised |-> TRUE]

-----------------------------------------------------------------------------
(* Core_IntFilter, isMultiple = false.                                     *)

Core_IntFilter(dontTestZero, columnKey) ==
    [class |-> "Core_IntFilter",
     comparisonLevel |-> 0, testCase |-> FALSE, trimValue |-> FALSE,
     dontTestZero |-> dontTestZero, columnKey |-> columnKey,
     value |-> JNull, filterValue |-> JNull]

Core_IntFilter_activeOrNot(f, targetValue) ==
    [filter |-> [f EXCEPT !.filterValue = targetValue, !.value = targetValue],
     ret |-> /\ targetValue # JStr(<<>>)
             /\ \/ f.dontTestZero = TRUE
                \/ ~LooseEq(targetValue, JNum(0)),
     raised |-> FALSE]

Core_IntFilter_test(f, line) ==
    [ret |-> LooseEq(f.value, Column(line, f.columnKey)), raised |-> FALSE]

\* filter.activeOrNot and filter.test, dispatched on the class of the instance
ActiveOrNot(f, targetValue) ==
    IF f.class = "Core_StringFilter"
    THEN Core_StringFilter_activeOrNot(f, targetValue)
    ELSE Core_IntFilter_activeOrNot(f, targetValue)

Test(f, line) ==
    IF f.class = "Core_StringFilter"
    THEN Core_StringFilter_test(f, line)
    ELSE Core_IntFilter_test(f, line)

-----------------------------------------------------------------------------
(* JavaScript Map, keyed by the primary key: a sequence of lines in        *)
(* insertion order, one line per key.                                      *)

MapHas(m, key) == \E i \in DOMAIN m : m[i].id = key

MapGet(m, key) == m[CHOOSE i \in DOMAIN m : m[i].id = key]

\* Map.prototype.set: an existing key keeps its position and takes the new line
MapSet(m, line) ==
    IF MapHas(m, line.id)
    THEN [i \in DOMAIN m |-> IF m[i].id = line.id THEN line ELSE m[i]]
    ELSE Append(m, line)

\* Map.prototype.delete
MapDelete(m, key) == SelectSeq(m, LAMBDA l : l.id # key)

\* new Map(data.map(obj => [obj[primaryKey], obj]))
RECURSIVE MapFromArray(_)
MapFromArray(lines) ==
    IF lines = <<>> THEN <<>>
    ELSE MapSet(MapFromArray(SubSeq(lines, 1, Len(lines) - 1)), lines[Len(lines)])

MapKeys(m) == {m[i].id : i \in DOMAIN m}

\* #data and #dataArray are null until the first FULL ingest
Null == [isNull |-> TRUE, lines |-> <<>>]
Loaded(lines) == [isNull |-> FALSE, lines |-> lines]

-----------------------------------------------------------------------------
(* Core_DataSource: parameters, contexts, filters.                         *)

FULL == 1
DELTA_ADD == 2
DELTA_REMOVE == 3

DO_NOTHING == 1
COMPUTE_VIEW == 2
SORT_VIEW == 3
REFRESH_VIEW == 4

ContextNames == {"main", "alt"}
FilterNames == {"name", "age"}

\* the name of a context as a JavaScript string
main == <<"m", "a", "i", "n">>
alt == <<"a", "l", "t">>
NameString(contextName) == IF contextName = "main" THEN main ELSE alt

\* getDefaultParams merged with the constructor's params.  pageSize 0 stands
\* for the default null; onContextSelectedMode 0 stands for undefined (the
\* defaults set refreshContextOnSelect, which no method reads).
Params(updateViewWhenOnFilterChange, pageSize, onContextSelectedMode) ==
    [updateViewWhenOnFilterChange |-> updateViewWhenOnFilterChange,
     pageSize |-> pageSize,
     onContextSelectedMode |-> onContextSelectedMode]

\* getDefaultContextParams, with the name set by addContext
getDefaultContextParams(contextName) ==
    [name |-> contextName, isActive |-> FALSE, filterValues |-> <<>>,
     view |-> <<>>, currentPage |-> JNum(0), nbPages |-> JNum(0)]

\* Map of context name -> context object; objects live in ds.heap by reference
CtxHas(contexts, contextName) == \E i \in DOMAIN contexts : contexts[i].name = contextName

CtxGet(contexts, contextName) ==
    contexts[CHOOSE i \in DOMAIN contexts : contexts[i].name = contextName].ref

CtxSet(contexts, contextName, ref) ==
    IF CtxHas(contexts, contextName)
    THEN [i \in DOMAIN contexts |->
            IF contexts[i].name = contextName
            THEN [name |-> contextName, ref |-> ref] ELSE contexts[i]]
    ELSE Append(contexts, [name |-> contextName, ref |-> ref])

CtxDelete(contexts, contextName) == SelectSeq(contexts, LAMBDA c : c.name # contextName)

CtxRefs(contexts) == {contexts[i].ref : i \in DOMAIN contexts}

\* A call in progress: the instance, whether it threw, what it logged and emitted
Work(d) == [d |-> d, raised |-> FALSE, errors |-> <<>>, notifs |-> <<>>]

Raise(w) == [w EXCEPT !.raised = TRUE]

LogError(w, what) == [w EXCEPT !.errors = Append(@, what)]

\* The references still held, in a fixed order: the contexts of the Map in
\* insertion order, then the active context if the Map no longer holds it
LiveRefs(d) ==
    LET held == [i \in DOMAIN d.contexts |-> d.contexts[i].ref] IN
    IF d.activeContext = 0 \/ d.activeContext \in CtxRefs(d.contexts)
    THEN held ELSE Append(held, d.activeContext)

\* the new reference of a held object (0 for an object no longer held)
Renamed(d, ref) ==
    LET live == LiveRefs(d) IN
    IF \E i \in DOMAIN live : live[i] = ref
    THEN CHOOSE i \in DOMAIN live : live[i] = ref ELSE 0

RenameNotif(d, n) == [n EXCEPT !.context = Renamed(d, @)]

\* Objects no longer referenced are dropped from the heap and the held ones
\* renumbered: references are compared, never read as numbers
Collect(d) ==
    LET live == LiveRefs(d) IN
    [d EXCEPT !.heap = [i \in DOMAIN live |-> d.heap[live[i]]],
              !.contexts = [i \in DOMAIN d.contexts |->
                              [name |-> d.contexts[i].name, ref |-> i]],
              !.activeContext = Renamed(d, @),
              !.viewUpdated = IF @.isNull THEN @
                              ELSE [@ EXCEPT !.payload = RenameNotif(d, @)]]

NewRef(d) == CHOOSE r \in 1..(Cardinality(DOMAIN d.heap) + 1) : r \notin DOMAIN d.heap

\* addContext(contextName) with the default contextParams
addContext(w, contextName) ==
    LET ref == NewRef(w.d)
        contexts == CtxSet(w.d.contexts, contextName, ref)
        first == Len(contexts) = 1
    IN [w EXCEPT
          !.d.contexts = contexts,
          !.d.heap = [r \in DOMAIN w.d.heap \cup {ref} |->
                        IF r = ref
                        THEN [getDefaultContextParams(contextName) EXCEPT !.isActive = first]
                        ELSE w.d.heap[r]],
          !.d.activeContext = IF first THEN ref ELSE @]

removeContext(w, contextName) ==
    [w EXCEPT !.d.contexts = CtxDelete(@, contextName)]

\* fv[filterName] ?? ''
FilterValue(fv, filterName) ==
    IF filterName \in DOMAIN fv THEN fv[filterName] ELSE JStr(<<>>)

\* computeActiveFiltersForContext: activeOrNot is called on every filter in
\* registration order and stores the context's value in the shared instance
RECURSIVE ComputeActive(_, _, _, _)
ComputeActive(filterDef, fv, i, active) ==
    IF i > Len(filterDef)
    THEN [filterDef |-> filterDef, active |-> active, raised |-> FALSE]
    ELSE LET r == ActiveOrNot(filterDef[i].filter, FilterValue(fv, filterDef[i].name)) IN
         IF r.raised
         THEN [filterDef |-> filterDef, active |-> active, raised |-> TRUE]
         ELSE ComputeActive([filterDef EXCEPT ![i].filter = r.filter], fv, i + 1,
                            IF r.ret THEN Append(active, i) ELSE active)

computeActiveFiltersForContext(d, ref) ==
    ComputeActive(d.filterDef, d.heap[ref].filterValues, 1, <<>>)

\* testLine: some() stops at the first filter whose test is falsy
RECURSIVE TestFrom(_, _, _, _)
TestFrom(filterDef, active, line, j) ==
    IF j > Len(active) THEN [ret |-> TRUE, raised |-> FALSE]
    ELSE LET r == Test(filterDef[active[j]].filter, line) IN
         IF r.raised \/ ~r.ret THEN r
         ELSE TestFrom(filterDef, active, line, j + 1)

testLine(filterDef, active, line) == TestFrom(filterDef, active, line, 1)

addLineToView(w, ref, line) == [w EXCEPT !.d.heap[ref].view = MapSet(@, line)]

processLineUpdated(w, ref, line) == [w EXCEPT !.d.heap[ref].view = MapSet(@, line)]

removeLineFromView(w, ref, line) == [w EXCEPT !.d.heap[ref].view = MapDelete(@, line.id)]

\* Array.prototype.slice(0, n)
Slice(s, from, to) == SubSeq(s, from + 1, IF to < Len(s) THEN to ELSE Len(s))

\* view.length of a Map is undefined: Math.floor(undefined / pageSize) + 1
MapLength(view) == JUndefined

FloorDivPlusOne(x, pageSize) ==
    IF x.t = "number" THEN JNum((x.n \div pageSize) + 1) ELSE JNaN

\* this.#viewUpdated.next(payload), with the pagination fields stored first
EmitViewUpdated(w, ref, payload) ==
    [w EXCEPT !.d.heap[ref].currentPage = payload.currentPage,
              !.d.heap[ref].nbPages = payload.nbPages,
              !.d.viewUpdated = [isNull |-> FALSE, payload |-> payload],
              !.notifs = Append(@, payload)]

ViewUpdatedPayload(ctx, ref, pageSize) ==
    [kind |-> "viewUpdated",
     view |-> IF pageSize > 0 THEN Slice(ctx.view, 0, pageSize) ELSE ctx.view,
     filterValues |-> ctx.filterValues,
     isActive |-> (pageSize > 0),
     currentPage |-> IF pageSize > 0 THEN JNum(1) ELSE ctx.currentPage,
     nbPages |-> IF pageSize > 0 THEN FloorDivPlusOne(MapLength(ctx.view), pageSize)
                 ELSE ctx.nbPages,
     pageSize |-> pageSize,
     context |-> ref]

\* triggerViewUpdatedNotif; reading the view of a null active context throws
triggerViewUpdatedNotif(w) ==
    IF w.d.activeContext = 0 THEN Raise(w)
    ELSE EmitViewUpdated(w, w.d.activeContext,
                         ViewUpdatedPayload(w.d.heap[w.d.activeContext],
                                            w.d.activeContext, w.d.params.pageSize))

\* triggerContextUpdated(context, deltaObject); delta is "full" (addedLines is
\* the view, the two others null), "delta" (three maps) or "none" (undefined)
triggerContextUpdated(w, ref, delta, addedLines, deletedLines, updatedLines) ==
    [w EXCEPT !.notifs = Append(@,
        [kind |-> "contextUpdated", context |-> ref, name |-> w.d.heap[ref].name,
         delta |-> delta, addedLines |-> addedLines,
         deletedLines |-> deletedLines, updatedLines |-> updatedLines])]

\* getViewUpdated().subscribe(...): a BehaviorSubject hands its current value,
\* the last payload emitted (null before the first), to a new subscriber
SubscribeViewUpdated(d) == d.viewUpdated

\* the activeOrNot calls have stored their values in the shared instances
WithFilters(w, a) == [w EXCEPT !.d.filterDef = a.filterDef, !.raised = a.raised]

\* one line of the dataArray.forEach of computeContextView
ScanLine(w, ref, line, t) ==
    IF t.raised THEN Raise(w)
    ELSE IF t.ret THEN addLineToView(w, ref, line) ELSE w

RECURSIVE ScanDataArray(_, _, _, _, _)
ScanDataArray(w, ref, active, lines, i) ==
    IF i > Len(lines) \/ w.raised THEN w
    ELSE ScanDataArray(ScanLine(w, ref, lines[i],
                                testLine(w.d.filterDef, active, lines[i])),
                       ref, active, lines, i + 1)

\* a scan that empties #dataArray as it goes (a draining loop instead of forEach)
ComputeView_scanDraining(w, ref, a) ==
    IF a.raised \/ w.d.dataArray.isNull THEN WithFilters(w, a)
    ELSE [ScanDataArray(WithFilters(w, a), ref, a.active, w.d.dataArray.lines, 1)
            EXCEPT !.d.dataArray = Loaded(<<>>)]

ComputeView_scan(w, ref, a) ==
    IF a.raised \/ w.d.dataArray.isNull THEN WithFilters(w, a)
    ELSE ScanDataArray(WithFilters(w, a), ref, a.active, w.d.dataArray.lines, 1)

ComputeView_filter(w, ref) ==
    ComputeView_scan(w, ref, computeActiveFiltersForContext(w.d, ref))

ComputeView_viewNotif(w, ref) ==
    IF w.raised \/ ref # w.d.activeContext THEN w ELSE triggerViewUpdatedNotif(w)

ComputeView_contextNotif(w, ref) ==
    IF w.raised THEN w
    ELSE triggerContextUpdated(w, ref, "full", w.d.heap[ref].view, <<>>, <<>>)

\* computeContextView(context): clear the view, decide the active filters,
\* scan #dataArray, notify; sort and the before* hooks do nothing
computeContextView(w, ref) ==
    ComputeView_contextNotif(
        ComputeView_viewNotif(
            ComputeView_filter([w EXCEPT !.d.heap[ref].view = <<>>], ref),
            ref),
        ref)

SetActive_select(w, ref) ==
    [w EXCEPT !.d.heap[w.d.activeContext].isActive = FALSE,
              !.d.activeContext = ref,
              !.d.heap[ref].isActive = TRUE]

SetActive_compute(w, ref, mode) ==
    IF mode = COMPUTE_VIEW THEN computeContextView(w, ref) ELSE w

SetActive_contextNotif(w, ref) ==
    IF w.raised THEN w ELSE triggerContextUpdated(w, ref, "none", <<>>, <<>>, <<>>)

SetActive_notify(w, ref, mode) ==
    IF w.raised \/ mode = DO_NOTHING \/ mode = COMPUTE_VIEW THEN w
    ELSE SetActive_contextNotif(triggerViewUpdatedNotif(w), ref)

\* setActiveContext(contextName)
setActiveContext(w, contextName) ==
    IF ~CtxHas(w.d.contexts, contextName) THEN LogError(w, "Cannot select")
    ELSE IF w.d.activeContext = 0 THEN Raise(w)
    ELSE SetActive_notify(
            SetActive_compute(SetActive_select(w, CtxGet(w.d.contexts, contextName)),
                              CtxGet(w.d.contexts, contextName),
                              w.d.params.onContextSelectedMode),
            CtxGet(w.d.contexts, contextName),
            w.d.params.onContextSelectedMode)

\* { ...this.#activeContext, ...filterValues } read at a filter's name: the
\* spread copies the fields of the context, not of its filterValues, so of the
\* keys a registered filter can read only "name" (the context's name) is there
SpreadContext(ctx) == [k \in {"name"} |-> JStr(NameString(ctx.name))]

Merge(base, over) ==
    [k \in DOMAIN base \cup DOMAIN over |-> IF k \in DOMAIN over THEN over[k] ELSE base[k]]

\* a refresh that does not look at updateViewWhenOnFilterChange
UpdateFilters_refreshAlways(w, ref) == computeContextView(w, ref)

UpdateFilters_refresh(w, ref) ==
    IF w.d.params.updateViewWhenOnFilterChange THEN computeContextView(w, ref) ELSE w

\* updateContextFilters(filterValues)
updateContextFilters(w, filterValues) ==
    IF w.d.activeContext = 0 THEN LogError(w, "No active filter found")
    ELSE UpdateFilters_refresh(
            [w EXCEPT !.d.heap[w.d.activeContext].filterValues =
                         Merge(SpreadContext(w.d.heap[w.d.activeContext]), filterValues)],
            w.d.activeContext)

\* addFilter(filterName, filterType, filterParams); columnKey defaults to filterName
addFilter(w, filterName, filter) ==
    IF \E i \in DOMAIN w.d.filterDef : w.d.filterDef[i].name = filterName
    THEN LogError(w, "Cannot add twice filter")
    ELSE [w EXCEPT !.d.filterDef = Append(@, [name |-> filterName, filter |-> filter])]

\* recomputeAllContexts: the contexts of the Map, in insertion order
RECURSIVE RecomputeFrom(_, _)
RecomputeFrom(w, i) ==
    IF i > Len(w.d.contexts) \/ w.raised THEN w
    ELSE RecomputeFrom(computeContextView(w, w.d.contexts[i].ref), i + 1)

recomputeAllContexts(w) == RecomputeFrom(w, 1)

\* what the delta loop has gathered for one context
DeltaStart(w) ==
    [w |-> w, contextUpdated |-> FALSE, addedLines |-> <<>>,
     deletedLines |-> <<>>, updatedLines |-> <<>>]

\* one line of the data.forEach of computeDeltaAddForContexts for one context
DeltaLine(acc, ref, line, t, inView) ==
    IF t.raised THEN [acc EXCEPT !.w = Raise(@)]
    ELSE IF t.ret /\ inView
    THEN [acc EXCEPT !.w = processLineUpdated(@, ref, line),
                     !.contextUpdated = TRUE,
                     !.updatedLines = MapSet(@, line)]
    ELSE IF t.ret
    THEN [acc EXCEPT !.w = addLineToView(@, ref, line),
                     !.contextUpdated = TRUE,
                     !.addedLines = MapSet(@, line)]
    ELSE IF inView
    THEN [acc EXCEPT !.w = removeLineFromView(@, ref, line),
                     !.contextUpdated = TRUE,
                     !.deletedLines = MapSet(@, line)]
    ELSE acc

RECURSIVE DeltaLines(_, _, _, _, _)
DeltaLines(acc, ref, active, data, i) ==
    IF i > Len(data) \/ acc.w.raised THEN acc
    ELSE DeltaLines(DeltaLine(acc, ref, data[i],
                              testLine(acc.w.d.filterDef, active, data[i]),
                              MapHas(acc.w.d.heap[ref].view, data[i].id)),
                    ref, active, data, i + 1)

Delta_scan(w, ref, a, data) ==
    IF a.raised THEN DeltaStart(WithFilters(w, a))
    ELSE DeltaLines(DeltaStart(WithFilters(w, a)), ref, a.active, data, 1)

Delta_contextNotif(acc, ref) ==
    IF acc.w.raised \/ ~acc.contextUpdated THEN acc
    ELSE [acc EXCEPT !.w = triggerContextUpdated(@, ref, "delta", acc.addedLines,
                                                 acc.deletedLines, acc.updatedLines)]

\* the body of the contexts.forEach of computeDeltaAddForContexts
Delta_context(w, ref, data) ==
    Delta_contextNotif(
        Delta_scan(w, ref, computeActiveFiltersForContext(w.d, ref), data), ref)

RECURSIVE DeltaContexts(_, _, _)
DeltaContexts(st, data, i) ==
    IF i > Len(st.w.d.contexts) \/ st.w.raised THEN st
    ELSE DeltaContexts(
            [w |-> Delta_context(st.w, st.w.d.contexts[i].ref, data).w,
             viewUpdated |->
                \/ st.viewUpdated
                \/ /\ st.w.d.contexts[i].ref = st.w.d.activeContext
                   /\ Delta_context(st.w, st.w.d.contexts[i].ref, data).contextUpdated],
            data, i + 1)

Delta_viewNotif(st) ==
    IF st.w.raised \/ ~st.viewUpdated THEN st.w ELSE triggerViewUpdatedNotif(st.w)

\* this.#data.set(line[primaryKey], line) for every line of the batch
RECURSIVE SetAll(_, _)
SetAll(m, data) ==
    IF data = <<>> THEN m ELSE SetAll(MapSet(m, Head(data)), Tail(data))

\* computeDeltaAddForContexts(data); #data.set on a null #data is a TypeError
computeDeltaAddForContexts(w, data) ==
    IF w.d.data.isNull /\ data # <<>> THEN Raise(w)
    ELSE Delta_viewNotif(
            DeltaContexts(
              [w |-> [w EXCEPT !.d.data = IF @.isNull THEN @
                                          ELSE Loaded(SetAll(@.lines, data))],
               viewUpdated |-> FALSE],
              data, 1))

\* Array.from(this.#data.values()) on a null #data is a TypeError
Delta_dataArray(w) ==
    IF w.raised THEN w
    ELSE IF w.d.data.isNull THEN Raise(w)
    ELSE [w EXCEPT !.d.dataArray = Loaded(w.d.data.lines)]

\* dataUpdated(data, mode); DELTA_REMOVE matches no branch
dataUpdated(w, data, mode) ==
    CASE mode = FULL ->
            recomputeAllContexts(
              [w EXCEPT !.d.dataArray = Loaded(data),
                        !.d.data = Loaded(MapFromArray(data))])
      [] mode = DELTA_ADD -> Delta_dataArray(computeDeltaAddForContexts(w, data))
      [] OTHER -> w

-----------------------------------------------------------------------------
(* Spec: one Core_DataSource.                                              *)

\* sequences of at most n elements of S
RECURSIVE SeqsUpTo(_, _)
SeqsUpTo(S, n) ==
    IF n = 0 THEN {<<>>}
    ELSE LET shorter == SeqsUpTo(S, n - 1) IN
         shorter \cup {Append(s, x) : s \in shorter, x \in S}

Batches == SeqsUpTo(Lines, MaxBatch)

\* the filter values a caller hands to updateContextFilters
ann == <<"a", "n", "n">>

FilterValuesOffered ==
    {[k \in {"name"} |-> JStr(ann)],
     [k \in {"age"} |-> JNum(1)],
     [k \in {"name", "age"} |-> IF k = "name" THEN JStr(ann) ELSE JNum(1)]}

\* the filters a caller registers: a string filter on name, an int filter on age
FiltersOffered(filterName) ==
    IF filterName = "name"
    THEN {Core_StringFilter(level, FALSE, TRUE, "name") : level \in {EQUALS, LIKE}}
    ELSE {Core_IntFilter(TRUE, "age")}

NoCall == [n |-> 0, op |-> "constructor", name |-> "", mode |-> 0,
           filterValues |-> <<>>, raised |-> FALSE, errors |-> <<>>, notifs |-> <<>>]

\* the constructor; createDefaultContext adds the context main
Core_DataSource(params, createDefaultContext) ==
    LET d0 == [params |-> params, data |-> Null, dataArray |-> Null,
               filterDef |-> <<>>, activeContext |-> 0, contexts |-> <<>>,
               heap |-> <<>>, viewUpdated |-> [isNull |-> TRUE, payload |-> <<>>]]
    IN IF createDefaultContext THEN Collect(addContext(Work(d0), "main").d) ELSE d0

ParamsOffered ==
    {Params(FALSE, 0, 0), Params(TRUE, 0, 0), Params(TRUE, 1, COMPUTE_VIEW),
     Params(FALSE, 1, DO_NOTHING)}

\* the instances a specification does not drive
NoFilter == <<>>
NoViewManager == <<>>
NoDataSource == <<>>
NoRepository == <<>>
NoBrowserDataSource == <<>>
NoZipService == <<>>
NoResourceService == <<>>
NoPipeline == <<>>
NoHTMLElement == <<>>
NoLangService == <<>>
NoRouter == <<>>
NoAgGridViewManager == <<>>
NoAutocomplete == <<>>

Init ==
    /\ \/ \E params \in ParamsOffered : ds = Core_DataSource(params, TRUE)
       \/ ds = Core_DataSource(Params(TRUE, 0, 0), FALSE)
    /\ call = NoCall
    /\ flt = NoFilter
    /\ vm = NoViewManager
    /\ repo = NoRepository
    /\ bds = NoBrowserDataSource
    /\ zip = NoZipService
    /\ res = NoResourceService
    /\ pipe = NoPipeline
    /\ elt = NoHTMLElement
    /\ lang = NoLangService
    /\ rtr = NoRouter
    /\ grid = NoAgGridViewManager
    /\ ac = NoAutocomplete

\* the state after a call: the instance, and what the call did
Return(w, op, name, mode, filterValues) ==
    /\ call.n < MaxCalls
    /\ ds' = Collect(w.d)
    /\ call' = [n |-> call.n + 1, op |-> op, name |-> name, mode |-> mode,
                filterValues |-> filterValues, raised |-> w.raised,
                errors |-> w.errors,
                notifs |-> [i \in DOMAIN w.notifs |-> RenameNotif(w.d, w.notifs[i])]]
    /\ UNCHANGED exceptDataSource

AddContext ==
    \E contextName \in ContextNames :
        Return(addContext(Work(ds), contextName), "addContext", contextName, 0, <<>>)

RemoveContext ==
    \E contextName \in ContextNames :
        Return(removeContext(Work(ds), contextName), "removeContext", contextName,
               0, <<>>)

SetActiveContext ==
    \E contextName \in ContextNames :
        Return(setActiveContext(Work(ds), contextName), "setActiveContext", contextName,
               0, <<>>)

AddFilter ==
    \E filterName \in FilterNames : \E filter \in FiltersOffered(filterName) :
        Return(addFilter(Work(ds), filterName, filter), "addFilter", filterName,
               0, <<>>)

\* name is the context the caller means to update; the method has no such
\* parameter and always works on the active context
UpdateContextFilters ==
    \E contextName \in ContextNames : \E filterValues \in FilterValuesOffered :
        Return(updateContextFilters(Work(ds), filterValues), "updateContextFilters",
               contextName, 0, filterValues)

DataUpdated ==
    \E data \in Batches : \E mode \in {FULL, DELTA_ADD, DELTA_REMOVE} :
        Return(dataUpdated(Work(ds), data, mode), "dataUpdated", "", mode, <<>>)

Next ==
    \/ AddContext
    \/ RemoveContext
    \/ SetActiveContext
    \/ AddFilter
    \/ UpdateContextFilters
    \/ DataUpdated

Spec == Init /\ [][Next]_vars

-----------------------------------------------------------------------------
(* SpecFilter: one filter instance, given values and lines.                *)

Space == <<" ">>

StringValuesOffered ==
    {JStr(<<>>), JStr(Space), JStr(ann), JStr(Ann), JStr(Space \o ann \o Space),
     JStr(<<"n", "n">>), JStr(Bob)}

IntValuesOffered == {JStr(<<>>), JNum(0), JNum(1)}

FilterLines == {Line(1, name, age) : name \in Names, age \in 0..1}

FiltersConstructed ==
    {Core_StringFilter(level, testCase, trimValue, "name") :
        level \in {EQUALS, LIKE}, testCase \in BOOLEAN, trimValue \in BOOLEAN}
    \cup {Core_IntFilter(dontTestZero, "age") : dontTestZero \in BOOLEAN}

NoFilterCall ==
    [op |-> "constructor", value |-> JNull, line |-> Line(1, Ann, 0),
     ret |-> FALSE, raised |-> FALSE]

InitFilter ==
    /\ flt \in FiltersConstructed
    /\ call = NoFilterCall
    /\ ds = NoDataSource
    /\ vm = NoViewManager
    /\ repo = NoRepository
    /\ bds = NoBrowserDataSource
    /\ zip = NoZipService
    /\ res = NoResourceService
    /\ pipe = NoPipeline
    /\ elt = NoHTMLElement
    /\ lang = NoLangService
    /\ rtr = NoRouter
    /\ grid = NoAgGridViewManager
    /\ ac = NoAutocomplete

FilterReturn(r, op, value, line) ==
    /\ call' = [op |-> op, value |-> value, line |-> line,
                ret |-> r.ret, raised |-> r.raised]
    /\ UNCHANGED exceptFilter

FilterActiveOrNot ==
    \E value \in IF flt.class = "Core_StringFilter"
                 THEN StringValuesOffered ELSE IntValuesOffered :
        /\ flt' = ActiveOrNot(flt, value).filter
        /\ FilterReturn(ActiveOrNot(flt, value), "activeOrNot", value, call.line)

\* test reads the value the last activeOrNot stored
FilterTest ==
    \E line \in FilterLines :
        /\ flt.value # JNull
        /\ flt' = flt
        /\ FilterReturn(Test(flt, line), "test", flt.filterValue, line)

NextFilter ==
    \/ FilterActiveOrNot
    \/ FilterTest

SpecFilter == InitFilter /\ [][NextFilter]_vars

-----------------------------------------------------------------------------
(* SpecVM: one Core_ViewManager.  Rows are numbered; sort() does nothing.  *)

\* the constructor, with params.pagination = { use, pageSize }
Core_ViewManager(use, pageSize) ==
    [use |-> use, pageSize |-> pageSize, data |-> <<>>, view |-> <<>>,
     pagination_currentPage |-> JNum(1), pagination_nbPages |-> 0,
     sortModel |-> [columnName |-> "", direction |-> "asc"]]

\* (this.#pagination_currentPage - 1) * pag.pageSize, NaN when the page is NaN
FirstItem(v) ==
    IF v.pagination_currentPage.t = "number"
    THEN JNum((v.pagination_currentPage.n - 1) * v.pageSize)
    ELSE JNaN

\* computeViewForPage: Array.prototype.slice takes NaN bounds as 0
computeViewForPage(v) ==
    IF v.use
    THEN [v EXCEPT !.view = IF FirstItem(v).t = "number"
                            THEN Slice(v.data, FirstItem(v).n, FirstItem(v).n + v.pageSize)
                            ELSE Slice(v.data, 0, 0)]
    ELSE v

Max(a, b) == IF a > b THEN a ELSE b

\* triggerViewUpdated: currentPage is read from params.pagination.currentPage,
\* which nothing sets
triggerViewUpdated(v) ==
    [nbLinesTotal |-> Len(v.data), view |-> v.view, currentPage |-> JUndefined]

\* the page kept or reset by updateSortOnly
\* (Math.max(0, NaN) is NaN and no number is less than NaN)
SortOnly_currentPage(v) ==
    IF FirstItem(v).t = "number" /\ Len(v.data) < Max(0, FirstItem(v).n)
    THEN JNum(1) ELSE v.pagination_currentPage

SortOnly_nbPages(v) == (Max(0, Len(v.data) - 1) \div v.pageSize) + 1

\* updateSortOnly, up to the notification
updateSortOnly(v) ==
    IF v.use
    THEN computeViewForPage([v EXCEPT !.pagination_currentPage = SortOnly_currentPage(v),
                                      !.pagination_nbPages = SortOnly_nbPages(v)])
    ELSE v

\* updateDataArray(data)
updateDataArray(v, data) == updateSortOnly([v EXCEPT !.data = data, !.view = data])

\* a < b and a > b on a JavaScript number a: both are false when a is NaN
NumLess(a, b) == a.t = "number" /\ a.n < b
NumGreater(a, b) == a.t = "number" /\ a.n > b

\* selectPage(pageIndex) accepts the page
SelectPageAccepted(v, pageIndex) ==
    v.use /\ ~(NumLess(pageIndex, 1) \/ NumGreater(pageIndex, v.pagination_nbPages))

selectPage(v, pageIndex) ==
    IF SelectPageAccepted(v, pageIndex)
    THEN computeViewForPage([v EXCEPT !.pagination_currentPage = pageIndex])
    ELSE v

Rows(n) == [i \in 1..n |-> i]

NoVMCall == [op |-> "constructor", arg |-> 0, loaded |-> FALSE,
             errors |-> <<>>, notifs |-> <<>>]

InitVM ==
    /\ \E use \in BOOLEAN : vm = Core_ViewManager(use, VMPageSize)
    /\ call = NoVMCall
    /\ ds = NoDataSource
    /\ flt = NoFilter
    /\ repo = NoRepository
    /\ bds = NoBrowserDataSource
    /\ zip = NoZipService
    /\ res = NoResourceService
    /\ pipe = NoPipeline
    /\ elt = NoHTMLElement
    /\ lang = NoLangService
    /\ rtr = NoRouter
    /\ grid = NoAgGridViewManager
    /\ ac = NoAutocomplete

VMUpdateDataArray ==
    \E n \in 0..MaxRows :
        /\ vm' = updateDataArray(vm, Rows(n))
        /\ call' = [op |-> "updateDataArray", arg |-> n, loaded |-> TRUE,
                    errors |-> <<>>,
                    notifs |-> <<triggerViewUpdated(updateDataArray(vm, Rows(n)))>>]
        /\ UNCHANGED exceptViewManager

SortModelsOffered ==
    {[columnName |-> "", direction |-> "asc"], [columnName |-> "name", direction |-> "desc"]}

\* a sort model with a column name and a direction resorts
SortModelResorts(sortModel) == sortModel.columnName # "" /\ sortModel.direction # ""

\* updateSortModel(sortModel) with a non-null sort model
updateSortModel(v, sortModel) ==
    IF SortModelResorts(sortModel)
    THEN updateSortOnly([v EXCEPT !.sortModel = sortModel])
    ELSE [v EXCEPT !.sortModel = sortModel]

VMUpdateSortModel ==
    \E sortModel \in SortModelsOffered :
        /\ vm' = updateSortModel(vm, sortModel)
        /\ call' = [op |-> "updateSortModel", arg |-> 0, loaded |-> call.loaded,
                    errors |-> <<>>,
                    notifs |-> IF SortModelResorts(sortModel)
                               THEN <<triggerViewUpdated(updateSortModel(vm, sortModel))>>
                               ELSE <<>>]
        /\ UNCHANGED exceptViewManager

\* the page indexes given to selectPage
PageIndexes == {JNum(n) : n \in 0..(MaxRows + 1)} \cup {JNaN}

VMSelectPage ==
    \E pageIndex \in PageIndexes :
        /\ vm' = selectPage(vm, pageIndex)
        /\ call' = [op |-> "selectPage", arg |-> pageIndex, loaded |-> call.loaded,
                    errors |-> IF SelectPageAccepted(vm, pageIndex) THEN <<>>
                               ELSE IF vm.use THEN <<"Incorrect page index">>
                               ELSE <<"Cannot select page">>,
                    notifs |-> IF SelectPageAccepted(vm, pageIndex)
                               THEN <<triggerViewUpdated(selectPage(vm, pageIndex))>>
                               ELSE <<>>]
        /\ UNCHANGED exceptViewManager

NextVM ==
    \/ VMUpdateDataArray
    \/ VMUpdateSortModel
    \/ VMSelectPage

SpecVM == InitVM /\ [][NextVM]_vars

-----------------------------------------------------------------------------
(* Core_DataRepository: a keyed store fed by batches, notifying what was    *)
(* added and what was updated.  No zip context is attached (the state       *)
(* after construction), so zipLine does nothing.                            *)

MaxRepoBatch == 2

\* the values offered at the primary-key field: undefined is a line that has
\* no such field
RepoKeys == {JUndefined, JNum(0), JNum(1), JNum(2)}
RepoLines == {[id |-> k, name |-> n] : k \in RepoKeys, n \in Names}
RepoBatches == SeqsUpTo(RepoLines, MaxRepoBatch)

\* ToBoolean(v) is false
Falsy(v) ==
    \/ v.t \in {"undefined", "null", "NaN"}
    \/ v.t = "number" /\ v.n = 0
    \/ v.t = "string" /\ v.s = <<>>

\* computePrimaryKey(data), the primary key being 'id'
computePrimaryKey(line) == line.id

Core_DataRepository == [dataMap |-> <<>>]

NoRepoCall ==
    [op |-> "constructor", isArray |-> TRUE, data |-> <<>>,
     errors |-> <<>>, emitted |-> FALSE,
     addedLines |-> <<>>, updatedLines |-> <<>>, deletedLines |-> <<>>]

\* one turn of data.forEach in updateDataArray
Repo_line(acc, line, pk) ==
    IF Falsy(pk)
    THEN [acc EXCEPT !.errors = Append(@, "Missing primary key in line, skipping")]
    ELSE [acc EXCEPT
            !.updatedLines = IF MapHas(acc.dataMap, pk) THEN Append(@, line) ELSE @,
            !.addedLines = IF MapHas(acc.dataMap, pk) THEN @ ELSE Append(@, line),
            !.dataMap = MapSet(@, line)]

RECURSIVE Repo_lines(_, _, _)
Repo_lines(acc, data, i) ==
    IF i > Len(data) THEN acc
    ELSE Repo_lines(Repo_line(acc, data[i], computePrimaryKey(data[i])), data, i + 1)

\* updateDataArray(data): the repository and what the call reported
Repo_updateDataArray(r, isArray, data) ==
    IF ~isArray
    THEN [dataMap |-> r.dataMap, errors |-> <<"Incorrect data type">>, emitted |-> FALSE,
          addedLines |-> <<>>, updatedLines |-> <<>>, deletedLines |-> <<>>]
    ELSE Repo_lines([dataMap |-> r.dataMap, errors |-> <<>>, emitted |-> TRUE,
                     addedLines |-> <<>>, updatedLines |-> <<>>, deletedLines |-> <<>>],
                    data, 1)

RECURSIVE Repo_remove(_, _, _)
Repo_remove(acc, keys, i) ==
    IF i > Len(keys) THEN [acc EXCEPT !.emitted = Len(acc.deletedLines) > 0]
    ELSE IF MapHas(acc.dataMap, keys[i])
    THEN Repo_remove([acc EXCEPT !.deletedLines = Append(@, MapGet(acc.dataMap, keys[i])),
                                 !.dataMap = MapDelete(@, keys[i])], keys, i + 1)
    ELSE Repo_remove(acc, keys, i + 1)

\* removeDataByKeys(keys) with an array of keys
removeDataByKeys(r, keys) ==
    Repo_remove([dataMap |-> r.dataMap, errors |-> <<>>, emitted |-> FALSE,
                 addedLines |-> <<>>, updatedLines |-> <<>>, deletedLines |-> <<>>],
                keys, 1)

\* reset()
Repo_reset(r) ==
    [dataMap |-> <<>>, errors |-> <<>>, emitted |-> Len(r.dataMap) > 0,
     addedLines |-> <<>>, updatedLines |-> <<>>, deletedLines |-> r.dataMap]

InitRepo ==
    /\ repo = Core_DataRepository
    /\ call = NoRepoCall
    /\ ds = NoDataSource
    /\ flt = NoFilter
    /\ vm = NoViewManager
    /\ bds = NoBrowserDataSource
    /\ zip = NoZipService
    /\ res = NoResourceService
    /\ pipe = NoPipeline
    /\ elt = NoHTMLElement
    /\ lang = NoLangService
    /\ rtr = NoRouter
    /\ grid = NoAgGridViewManager
    /\ ac = NoAutocomplete

RepoReturn(r, op, isArray, data) ==
    /\ repo' = [dataMap |-> r.dataMap]
    /\ call' = [op |-> op, isArray |-> isArray, data |-> data,
                errors |-> r.errors, emitted |-> r.emitted,
                addedLines |-> r.addedLines, updatedLines |-> r.updatedLines,
                deletedLines |-> r.deletedLines]
    /\ UNCHANGED exceptRepository

RepoUpdateDataArray ==
    \E data \in RepoBatches : \E isArray \in BOOLEAN :
        RepoReturn(Repo_updateDataArray(repo, isArray, data), "updateDataArray",
                   isArray, IF isArray THEN data ELSE <<>>)

RepoRemoveDataByKeys ==
    \E keys \in SeqsUpTo(RepoKeys, 1) :
        RepoReturn(removeDataByKeys(repo, keys), "removeDataByKeys", TRUE, <<>>)

RepoReset == RepoReturn(Repo_reset(repo), "reset", TRUE, <<>>)

NextRepo == RepoUpdateDataArray \/ RepoRemoveDataByKeys \/ RepoReset

SpecRepo == InitRepo /\ [][NextRepo]_vars

-----------------------------------------------------------------------------
(* Core_BrowserDataSource: one filtered view (#dataMap) over the map of a   *)
(* reference repository (#refDataMap), fed with classified deltas.          *)

MaxBdsCalls == 4
MaxBdsLines == 1

\* the names the primary-key field may have.  The field id of a line of the
\* model is its value at the primary-key field; the line has a JavaScript
\* property named id only when that field is named 'id'.
PrimaryKeys == {"id", "key"}

\* the constructor; #primaryKey and #refDataMap are the reference object's
\* primaryKey and its own Map
Core_BrowserDataSource(primaryKey, refDataMap, updateViewWhenOnFilterChange) ==
    [primaryKey |-> primaryKey,
     refDataMap |-> refDataMap, dataMap |-> <<>>, filterDef |-> <<>>,
     activeFiltersMap |-> <<>>, activeFilters |-> <<>>,
     updateViewWhenOnFilterChange |-> updateViewWhenOnFilterChange]

\* the work of one call: the instance, the three outgoing lists, what was
\* logged, whether the call raised and whether it notified
BdsWork(b) ==
    [b |-> b, raised |-> FALSE, errors |-> <<>>, emitted |-> FALSE,
     addedLines |-> <<>>, updatedLines |-> <<>>, deletedLines |-> <<>>]

FilterIndex(filterDef, filterName) ==
    CHOOSE i \in DOMAIN filterDef : filterDef[i].name = filterName

HasFilter(filterDef, filterName) ==
    \E i \in DOMAIN filterDef : filterDef[i].name = filterName

\* addFilter(filterName, filterType, filterParams)
Bds_addFilter(a, filterName, filter) ==
    IF HasFilter(a.b.filterDef, filterName)
    THEN [a EXCEPT !.errors = Append(@, "Cannot add twice filter")]
    ELSE [a EXCEPT !.b.filterDef = Append(@, [name |-> filterName, filter |-> filter])]

\* Map set / delete on #activeFiltersMap, kept as the names in insertion order
NameSet(names, filterName) ==
    IF \E i \in DOMAIN names : names[i] = filterName THEN names
    ELSE Append(names, filterName)

NameDelete(names, filterName) == SelectSeq(names, LAMBDA n : n # filterName)

\* testLine(line): the filters of #activeFilters, the first falsy test decides
Bds_testLine(b, line) == TestFrom(b.filterDef, b.activeFilters, line, 1)

\* triggerDataUpdated(DELTA, ...): nothing is sent for three empty lists
triggerDataUpdated(a) ==
    IF a.raised THEN a
    ELSE [a EXCEPT !.emitted =
            Len(a.addedLines) + Len(a.updatedLines) + Len(a.deletedLines) > 0]

\* one turn of updateObject.deletedLines.forEach
Bds_deleted(a, line) ==
    IF MapHas(a.b.dataMap, line.id)
    THEN [a EXCEPT !.deletedLines = Append(@, line),
                   !.b.dataMap = MapDelete(@, line.id)]
    ELSE a

\* one turn of updateObject.addedLines.forEach, t being testLine(line)
Bds_added(a, line, t) ==
    IF t.raised THEN [a EXCEPT !.raised = TRUE]
    ELSE IF t.ret
    THEN [a EXCEPT !.addedLines = Append(@, line), !.b.dataMap = MapSet(@, line)]
    ELSE a

\* one turn of updateObject.updatedLines.forEach
Bds_updated(a, line, t, hasInView) ==
    IF t.raised THEN [a EXCEPT !.raised = TRUE]
    ELSE IF t.ret /\ hasInView
    THEN [a EXCEPT !.updatedLines = Append(@, line), !.b.dataMap = MapSet(@, line)]
    ELSE IF t.ret
    THEN [a EXCEPT !.addedLines = Append(@, line), !.b.dataMap = MapSet(@, line)]
    ELSE IF hasInView
    THEN [a EXCEPT !.deletedLines = Append(@, line), !.b.dataMap = MapDelete(@, line.id)]
    ELSE a

RECURSIVE Bds_eachDeleted(_, _, _)
Bds_eachDeleted(a, lines, i) ==
    IF i > Len(lines) THEN a
    ELSE Bds_eachDeleted(Bds_deleted(a, lines[i]), lines, i + 1)

RECURSIVE Bds_eachAdded(_, _, _)
Bds_eachAdded(a, lines, i) ==
    IF i > Len(lines) \/ a.raised THEN a
    ELSE Bds_eachAdded(Bds_added(a, lines[i], Bds_testLine(a.b, lines[i])), lines, i + 1)

RECURSIVE Bds_eachUpdated(_, _, _)
Bds_eachUpdated(a, lines, i) ==
    IF i > Len(lines) \/ a.raised THEN a
    ELSE Bds_eachUpdated(
            Bds_updated(a, lines[i], Bds_testLine(a.b, lines[i]),
                        MapHas(a.b.dataMap, lines[i].id)),
            lines, i + 1)

\* updateData(updateObject)
updateData(a, updateObject) ==
    triggerDataUpdated(
        Bds_eachUpdated(
            Bds_eachAdded(
                Bds_eachDeleted(a, updateObject.deletedLines, 1),
                updateObject.addedLines, 1),
            updateObject.updatedLines, 1))

\* this.#dataMap.has(line.id): line.id is undefined, and no key of the view,
\* unless the primary-key field is named 'id'
Bds_hasLineId(b, line) == b.primaryKey = "id" /\ MapHas(b.dataMap, line.id)

\* the lines of #refDataMap for which #dataMap.has(line.id) is wanted
RefLines(b, wanted) ==
    SelectSeq(b.refDataMap, LAMBDA line : Bds_hasLineId(b, line) = wanted)

\* refreshData(): the reference lines, classified by the view, go to updateData
refreshData(a) ==
    updateData(a, [addedLines |-> RefLines(a.b, FALSE),
                   updatedLines |-> RefLines(a.b, TRUE),
                   deletedLines |-> <<>>])

\* one entry of Object.entries(filterValues), r being activeOrNot(filterValue)
Bds_filterValue(a, i, filterName, r) ==
    IF r.raised THEN [a EXCEPT !.raised = TRUE]
    ELSE [a EXCEPT !.b.filterDef[i].filter = r.filter,
                   !.b.activeFiltersMap = IF r.ret THEN NameSet(@, filterName)
                                          ELSE NameDelete(@, filterName)]

RECURSIVE Bds_filterValues(_, _, _)
Bds_filterValues(a, entries, k) ==
    IF k > Len(entries) \/ a.raised THEN a
    ELSE IF HasFilter(a.b.filterDef, entries[k].name)
    THEN Bds_filterValues(
            Bds_filterValue(a, FilterIndex(a.b.filterDef, entries[k].name), entries[k].name,
                ActiveOrNot(a.b.filterDef[FilterIndex(a.b.filterDef, entries[k].name)].filter,
                            entries[k].value)),
            entries, k + 1)
    ELSE Bds_filterValues([a EXCEPT !.errors = Append(@, "Filter does not exist")],
                          entries, k + 1)

\* Array.from(#activeFiltersMap.values()), then the refresh when asked for
Bds_activeFilters(a) ==
    IF a.raised THEN a
    ELSE [a EXCEPT !.b.activeFilters =
            [j \in DOMAIN a.b.activeFiltersMap |->
                FilterIndex(a.b.filterDef, a.b.activeFiltersMap[j])]]

Bds_refreshOnChange(a) ==
    IF ~a.raised /\ a.b.updateViewWhenOnFilterChange /\ Len(a.b.refDataMap) > 0
    THEN refreshData(a) ELSE a

\* updateFilterValues(filterValues), the entries in the object's key order
updateFilterValues(a, entries) ==
    Bds_refreshOnChange(Bds_activeFilters(Bds_filterValues(a, entries, 1)))

\* what callers hand in
BdsLineLists == SeqsUpTo(Lines, MaxBdsLines)

UpdateObjects ==
    [addedLines : BdsLineLists, updatedLines : BdsLineLists, deletedLines : BdsLineLists]

NoUpdateObject == [addedLines |-> <<>>, updatedLines |-> <<>>, deletedLines |-> <<>>]

Entry(filterName, value) == [name |-> filterName, value |-> value]

BdsFilterValuesOffered ==
    {<<Entry("name", JStr(ann))>>, <<Entry("name", JStr(<<>>))>>,
     <<Entry("age", JNum(1))>>, <<Entry("name", JStr(ann)), Entry("age", JNum(1))>>}

NoBdsCall ==
    [n |-> 0, op |-> "constructor", updateObject |-> NoUpdateObject,
     raised |-> FALSE, errors |-> <<>>, emitted |-> FALSE,
     addedLines |-> <<>>, updatedLines |-> <<>>, deletedLines |-> <<>>]

InitBds ==
    /\ \E auto \in BOOLEAN : \E primaryKey \in PrimaryKeys :
          bds = Core_BrowserDataSource(primaryKey, <<>>, auto)
    /\ call = NoBdsCall
    /\ ds = NoDataSource
    /\ flt = NoFilter
    /\ vm = NoViewManager
    /\ repo = NoRepository
    /\ zip = NoZipService
    /\ res = NoResourceService
    /\ pipe = NoPipeline
    /\ elt = NoHTMLElement
    /\ lang = NoLangService
    /\ rtr = NoRouter
    /\ grid = NoAgGridViewManager
    /\ ac = NoAutocomplete

BdsReturn(a, op, updateObject) ==
    /\ call.n < MaxBdsCalls
    /\ bds' = a.b
    /\ call' = [n |-> call.n + 1, op |-> op, updateObject |-> updateObject,
                raised |-> a.raised, errors |-> a.errors, emitted |-> a.emitted,
                addedLines |-> a.addedLines, updatedLines |-> a.updatedLines,
                deletedLines |-> a.deletedLines]
    /\ UNCHANGED exceptBrowserDataSource

BdsAddFilter ==
    \E filterName \in FilterNames : \E filter \in FiltersOffered(filterName) :
        BdsReturn(Bds_addFilter(BdsWork(bds), filterName, filter), "addFilter",
                  NoUpdateObject)

BdsUpdateFilterValues ==
    \E entries \in BdsFilterValuesOffered :
        BdsReturn(updateFilterValues(BdsWork(bds), entries), "updateFilterValues",
                  NoUpdateObject)

BdsUpdateData ==
    \E updateObject \in UpdateObjects :
        BdsReturn(updateData(BdsWork(bds), updateObject), "updateData", updateObject)

BdsRefreshData == BdsReturn(refreshData(BdsWork(bds)), "refreshData", NoUpdateObject)

\* the reference repository ingests a line: #refDataMap is its Map
BdsReferenceIngest ==
    \E line \in Lines :
        BdsReturn([BdsWork(bds) EXCEPT !.b.refDataMap = MapSet(@, line)],
                  "reference.updateDataArray", NoUpdateObject)

NextBds ==
    \/ BdsAddFilter
    \/ BdsUpdateFilterValues
    \/ BdsUpdateData
    \/ BdsRefreshData
    \/ BdsReferenceIngest

SpecBds == InitBds /\ [][NextBds]_vars

-----------------------------------------------------------------------------
(* Core_ZipService: labels interned as ids, per context and data type.  One *)
(* context name and one data type are followed; the two Maps of the data    *)
(* type are sequences of [key, value] in insertion order.  A label is any   *)
(* JavaScript value: processLine reads it from a column of the line, which  *)
(* holds a string first and may hold an id later.                           *)

MaxZipLabels == 4    \* createIdForLabel is followed until a data type holds MaxZipLabels labels

Paris == <<"P">>
Rome == <<"R">>

ZipLabels == {JStr(Paris), JStr(Rome)}

\* the ids a caller supplies under idKey
ExternalIds == {JNum(1), JNum(2), JStr(<<"2">>)}

KvHas(m, key) == \E i \in DOMAIN m : m[i].key = key

KvGet(m, key) == m[CHOOSE i \in DOMAIN m : m[i].key = key].value

KvSet(m, key, value) ==
    IF KvHas(m, key)
    THEN [i \in DOMAIN m |-> IF m[i].key = key THEN [key |-> key, value |-> value] ELSE m[i]]
    ELSE Append(m, [key |-> key, value |-> value])

\* parseInt(id): a number is itself, a string starting with a digit is that
\* digit (the strings of the model have one), anything else is NaN
ParseInt(v) ==
    CASE v.t = "number" -> v
      [] v.t = "string" /\ TrimStart(v.s) # <<>> ->
            IF \E d \in 1..10 : Digits[d] = TrimStart(v.s)[1]
            THEN JNum((CHOOSE d \in 1..10 : Digits[d] = TrimStart(v.s)[1]) - 1)
            ELSE JNaN
      [] OTHER -> JNaN

\* the constructor
NoLine == [city |-> JUndefined, cityId |-> JUndefined]

\* the contextParams offered: one definition for the column city, the id
\* written to the column itself or to the column cityId (dataTypeKey)
ZipParams == {[column |-> "city", dataTypeKey |-> k] : k \in {"", "cityId"}}

\* the lines a caller hands over: a label in city, an id or nothing in cityId
ZipLines ==
    {[city |-> label, cityId |-> id] : label \in ZipLabels, id \in {JUndefined, JNum(1), JNum(2)}}

\* the constructor; line is the record object the caller had processed last
Core_ZipService ==
    [registered |-> FALSE, params |-> <<>>, hasDataType |-> FALSE,
     labelToId |-> <<>>, idToLabel |-> <<>>, line |-> NoLine]

\* initContext(contextName, contextParams)
initContext(z, contextParams) ==
    IF z.registered THEN z
    ELSE [registered |-> TRUE, params |-> contextParams, hasDataType |-> FALSE,
          labelToId |-> <<>>, idToLabel |-> <<>>, line |-> z.line]

\* resetContext(contextName): the context and its maps are dropped
resetContext(z) == [Core_ZipService EXCEPT !.line = z.line]

\* the id createIdForLabel gives to a label it has not met: data[idKey] when an
\* idKey is passed, else labelToId.size + 1
NextId(z, withIdKey, externalId) ==
    IF withIdKey THEN externalId ELSE JNum(Len(z.labelToId) + 1)

\* createIdForLabel(currentContext, dataType, data, labelKey, idKey)
createIdForLabel(z, label, withIdKey, externalId) ==
    IF KvHas(z.labelToId, label) THEN [z EXCEPT !.hasDataType = TRUE]
    ELSE [z EXCEPT !.hasDataType = TRUE,
                   !.labelToId = KvSet(@, label, NextId(z, withIdKey, externalId)),
                   !.idToLabel = KvSet(@, NextId(z, withIdKey, externalId), label)]

\* getIdFromLabel(context, dataType, label)
getIdFromLabel(z, label) ==
    IF z.registered /\ z.hasDataType /\ KvHas(z.labelToId, label)
    THEN KvGet(z.labelToId, label) ELSE JNull

\* getLabelFromId(context, dataType, id)
getLabelFromId(z, id) ==
    IF z.registered /\ z.hasDataType /\ KvHas(z.idToLabel, ParseInt(id))
    THEN KvGet(z.idToLabel, ParseInt(id)) ELSE JNull

\* one definition of context.params.forEach in processLine: the id of the
\* label in line[def.column] is written to line[def.dataTypeKey] if the
\* definition has one, else to line[def.column]
ProcessLine_def(z, line, def) ==
    LET after == createIdForLabel(z, line.city, def.dataTypeKey # "", line.cityId) IN
    [after EXCEPT !.line =
        IF def.dataTypeKey # ""
        THEN [line EXCEPT !.cityId = KvGet(after.labelToId, line.city)]
        ELSE [line EXCEPT !.city = KvGet(after.labelToId, line.city)]]

\* processLine(context, line)
RECURSIVE ProcessLine_from(_, _, _)
ProcessLine_from(z, line, i) ==
    IF i > Len(z.params) THEN [z EXCEPT !.line = line]
    ELSE ProcessLine_from(ProcessLine_def(z, line, z.params[i]),
                          ProcessLine_def(z, line, z.params[i]).line, i + 1)

processLine(z, line) == ProcessLine_from(z, line, 1)

NoZipCall == [op |-> "constructor", label |-> JNull, ret |-> JNull, errors |-> <<>>]

InitZip ==
    /\ zip = Core_ZipService
    /\ call = NoZipCall
    /\ ds = NoDataSource
    /\ flt = NoFilter
    /\ vm = NoViewManager
    /\ repo = NoRepository
    /\ bds = NoBrowserDataSource
    /\ res = NoResourceService
    /\ pipe = NoPipeline
    /\ elt = NoHTMLElement
    /\ lang = NoLangService
    /\ rtr = NoRouter
    /\ grid = NoAgGridViewManager
    /\ ac = NoAutocomplete

ZipInitContext ==
    \E def \in ZipParams :
        /\ zip' = initContext(zip, <<def>>)
        /\ call' = [op |-> "initContext", label |-> JNull, ret |-> JNull,
                    errors |-> IF zip.registered
                               THEN <<"Cannot create twice the same context">> ELSE <<>>]
        /\ UNCHANGED exceptZipService

ZipResetContext ==
    /\ zip' = resetContext(zip)
    /\ call' = [op |-> "resetContext", label |-> JNull, ret |-> JNull, errors |-> <<>>]
    /\ UNCHANGED exceptZipService

\* createIdForLabel on the context initContext returned
ZipCreateIdForLabel ==
    \E label \in ZipLabels : \E withIdKey \in BOOLEAN : \E externalId \in ExternalIds :
        /\ zip.registered
        /\ Len(zip.labelToId) < MaxZipLabels
        /\ zip' = createIdForLabel(zip, label, withIdKey, externalId)
        /\ call' = [op |-> "createIdForLabel", label |-> label,
                    ret |-> getIdFromLabel(zip', label), errors |-> <<>>]
        /\ UNCHANGED exceptZipService

\* processLine on the context initContext returned, for a new line or for
\* the record object processed last (a record ingested again)
ZipProcessLine ==
    \E line \in ZipLines \cup {zip.line} :
        /\ zip.registered
        /\ line # NoLine
        /\ Len(zip.labelToId) < MaxZipLabels
        /\ zip' = processLine(zip, line)
        /\ call' = [op |-> "processLine", label |-> line.city, ret |-> JNull,
                    errors |-> <<>>]
        /\ UNCHANGED exceptZipService

NextZip == ZipInitContext \/ ZipResetContext \/ ZipCreateIdForLabel \/ ZipProcessLine

SpecZip == InitZip /\ [][NextZip]_vars

-----------------------------------------------------------------------------
(***************************************************************************)
(* Core_ResourceService: a Map of locks keyed by the string makeKey builds  *)
(* from the pair (type, key).                                               *)
(***************************************************************************)
Separator == <<"@", "@", "@">>

\* the types and keys given to lock and unlock
ResourceTypes == {<<"a">>, <<"a">> \o Separator \o <<"b">>}
ResourceKeys ==
    {JStr(<<"c">>), JStr(<<"b">> \o Separator \o <<"c">>), JNum(1), JStr(<<"1">>)}
ResourcePairs == [type : ResourceTypes, key : ResourceKeys]

\* constructor: this.#resources = new Map()
Core_ResourceService == [resources |-> <<>>]

\* `${type}@@@${key}`
makeKey(type, key) == type \o Separator \o ToStringOrEmpty(key)

\* Map.prototype.delete on a Map of [key, value]
KvDelete(m, key) == SelectSeq(m, LAMBDA e : e.key # key)

\* lock(type, key): the service afterwards and the value returned
lock(r, type, key) ==
    LET localKey == makeKey(type, key)
        lockGotten == ~KvHas(r.resources, localKey)
    IN  [r |-> IF lockGotten
               THEN [r EXCEPT !.resources = KvSet(r.resources, localKey, 1)]
               ELSE r,
         returned |-> lockGotten]

\* unlock(type, key): the service afterwards and the value returned
unlock(r, type, key) ==
    LET localKey == makeKey(type, key)
        hadLock == KvHas(r.resources, localKey)
    IN  [r |-> [r EXCEPT !.resources = KvDelete(r.resources, localKey)],
         returned |-> hadLock]

NoResourceCall ==
    [op |-> "constructor", type |-> <<>>, key |-> JUndefined, returned |-> FALSE]

InitResource ==
    /\ res = Core_ResourceService
    /\ call = NoResourceCall
    /\ ds = NoDataSource
    /\ flt = NoFilter
    /\ vm = NoViewManager
    /\ repo = NoRepository
    /\ bds = NoBrowserDataSource
    /\ zip = NoZipService
    /\ pipe = NoPipeline
    /\ elt = NoHTMLElement
    /\ lang = NoLangService
    /\ rtr = NoRouter
    /\ grid = NoAgGridViewManager
    /\ ac = NoAutocomplete

ResourceLock ==
    \E p \in ResourcePairs :
        /\ res' = lock(res, p.type, p.key).r
        /\ call' = [op |-> "lock", type |-> p.type, key |-> p.key,
                    returned |-> lock(res, p.type, p.key).returned]
        /\ UNCHANGED exceptResourceService

ResourceUnlock ==
    \E p \in ResourcePairs :
        /\ res' = unlock(res, p.type, p.key).r
        /\ call' = [op |-> "unlock", type |-> p.type, key |-> p.key,
                    returned |-> unlock(res, p.type, p.key).returned]
        /\ UNCHANGED exceptResourceService

NextResource == ResourceLock \/ ResourceUnlock

SpecResource == InitResource /\ [][NextResource]_vars

-----------------------------------------------------------------------------
(***************************************************************************)
(* A pipeline: one Core_DataRepository, a Core_BrowserDataSource A built on *)
(* it and a Core_BrowserDataSource B built on A.  Each stage is subscribed  *)
(* to the notification of the stage before it and hands it to updateData;   *)
(* a Subject delivers synchronously, so one repository call runs the whole  *)
(* chain before it returns.                                                 *)
(***************************************************************************)
PipeLines ==
    {[id |-> JNum(1), name |-> Ann, age |-> 0], [id |-> JNum(1), name |-> Bob, age |-> 1],
     [id |-> JNum(2), name |-> Ann, age |-> 0]}
PipeBatches == SeqsUpTo(PipeLines, MaxRepoBatch)
PipeKeys == {JNum(1), JNum(2)}

\* the filter values a stage is given when the pipeline is wired
PipeFilterValues == {<<>>, <<Entry("name", JStr(ann))>>, <<Entry("age", JNum(1))>>}

\* new Core_BrowserDataSource(reference), addFilter twice, updateFilterValues
WiredSource(refDataMap, entries) ==
    updateFilterValues(
        Bds_addFilter(
            Bds_addFilter(BdsWork(Core_BrowserDataSource("id", refDataMap, FALSE)),
                          "name", Core_StringFilter(LIKE, FALSE, TRUE, "name")),
            "age", Core_IntFilter(TRUE, "age")),
        entries).b

\* subscribe(n => stage.updateData(n)): the stage after a notification of the
\* stage before it, refDataMap being that stage's own Map
Pipe_stage(b, refDataMap, before) ==
    IF before.emitted
    THEN updateData(BdsWork([b EXCEPT !.refDataMap = refDataMap]),
                    [addedLines |-> before.addedLines,
                     updatedLines |-> before.updatedLines,
                     deletedLines |-> before.deletedLines])
    ELSE BdsWork([b EXCEPT !.refDataMap = refDataMap])

\* B after the notification of A
Pipe_second(p, r, a) ==
    [repo |-> [dataMap |-> r.dataMap], a |-> a.b,
     b |-> Pipe_stage(p.b, a.b.dataMap, a).b]

\* the pipeline after a repository call whose outcome is r
Pipe_run(p, r) == Pipe_second(p, r, Pipe_stage(p.a, r.dataMap, r))

NoPipeCall == [op |-> "constructor", data |-> <<>>]

InitPipe ==
    /\ \E fa \in PipeFilterValues : \E fb \in PipeFilterValues :
          pipe = [repo |-> Core_DataRepository,
                  a |-> WiredSource(<<>>, fa), b |-> WiredSource(<<>>, fb)]
    /\ call = NoPipeCall
    /\ ds = NoDataSource
    /\ flt = NoFilter
    /\ vm = NoViewManager
    /\ repo = NoRepository
    /\ bds = NoBrowserDataSource
    /\ zip = NoZipService
    /\ res = NoResourceService
    /\ elt = NoHTMLElement
    /\ lang = NoLangService
    /\ rtr = NoRouter
    /\ grid = NoAgGridViewManager
    /\ ac = NoAutocomplete

PipeUpdateDataArray ==
    \E data \in PipeBatches :
        /\ pipe' = Pipe_run(pipe, Repo_updateDataArray(pipe.repo, TRUE, data))
        /\ call' = [op |-> "updateDataArray", data |-> data]
        /\ UNCHANGED exceptPipeline

PipeRemoveDataByKeys ==
    \E keys \in SeqsUpTo(PipeKeys, 1) :
        /\ pipe' = Pipe_run(pipe, removeDataByKeys(pipe.repo, keys))
        /\ call' = [op |-> "removeDataByKeys", data |-> keys]
        /\ UNCHANGED exceptPipeline

PipeReset ==
    /\ pipe' = Pipe_run(pipe, Repo_reset(pipe.repo))
    /\ call' = [op |-> "reset", data |-> <<>>]
    /\ UNCHANGED exceptPipeline

NextPipe == PipeUpdateDataArray \/ PipeRemoveDataByKeys \/ PipeReset

SpecPipe == InitPipe /\ [][NextPipe]_vars

-----------------------------------------------------------------------------
(***************************************************************************)
(* Core_HTMLElement and its Core_SubscriptionManager.  The element           *)
(* subscribes to subjects and registers each subscription with addSub; a     *)
(* subject's next() reaches the subscriptions that are not closed.           *)
(***************************************************************************)
MaxSubs == 3

Subjects == {"s1", "s2"}

\* the constructors: no subscription, reuse mode off
Core_SubscriptionManager == <<>>
Core_HTMLElement == [reuseMode |-> FALSE, subs |-> Core_SubscriptionManager]

\* Subscription.unsubscribe(): closes the subscription and returns undefined
Unsubscribe(sub) == [sub |-> [sub EXCEPT !.closed = TRUE], ret |-> JUndefined]

\* Array.prototype.every with value => value.unsubscribe(): the callback runs
\* on the elements in order until it returns a falsy value
RECURSIVE Every_unsubscribe(_, _)
Every_unsubscribe(subs, i) ==
    IF i > Len(subs) THEN subs
    ELSE IF Falsy(Unsubscribe(subs[i]).ret)
    THEN [subs EXCEPT ![i] = Unsubscribe(subs[i]).sub]
    ELSE Every_unsubscribe([subs EXCEPT ![i] = Unsubscribe(subs[i]).sub], i + 1)

\* Core_SubscriptionManager.addSub(sub)
addSub(subs, sub) == Append(subs, sub)

\* Core_SubscriptionManager.cleanSubs()
cleanSubs(subs) == Every_unsubscribe(subs, 1)

\* disconnectedCallback(); onDisconnect and cleanFunctional are empty hooks
disconnectedCallback(e) ==
    IF e.reuseMode = FALSE THEN [e EXCEPT !.subs = cleanSubs(e.subs)] ELSE e

\* forceDestroy()
forceDestroy(e) == disconnectedCallback([e EXCEPT !.reuseMode = FALSE])

\* the subscriptions of the element that a next() on the subject reaches
Delivered(e, subject) ==
    {i \in DOMAIN e.subs : e.subs[i].subject = subject /\ ~e.subs[i].closed}

NoEltCall == [op |-> "constructor", subject |-> "", delivered |-> {}]

InitElt ==
    /\ elt = Core_HTMLElement
    /\ call = NoEltCall
    /\ ds = NoDataSource
    /\ flt = NoFilter
    /\ vm = NoViewManager
    /\ repo = NoRepository
    /\ bds = NoBrowserDataSource
    /\ zip = NoZipService
    /\ res = NoResourceService
    /\ pipe = NoPipeline
    /\ lang = NoLangService
    /\ rtr = NoRouter
    /\ grid = NoAgGridViewManager
    /\ ac = NoAutocomplete

\* this.addSub(subject.subscribe(...))
EltAddSub ==
    \E subject \in Subjects :
        /\ Len(elt.subs) < MaxSubs
        /\ elt' = [elt EXCEPT !.subs = addSub(@, [subject |-> subject, closed |-> FALSE])]
        /\ call' = [op |-> "addSub", subject |-> subject, delivered |-> {}]
        /\ UNCHANGED exceptHTMLElement

EltDisconnectedCallback ==
    /\ elt' = disconnectedCallback(elt)
    /\ call' = [op |-> "disconnectedCallback", subject |-> "", delivered |-> {}]
    /\ UNCHANGED exceptHTMLElement

EltForceDestroy ==
    /\ elt' = forceDestroy(elt)
    /\ call' = [op |-> "forceDestroy", subject |-> "", delivered |-> {}]
    /\ UNCHANGED exceptHTMLElement

\* detach(): reuse mode on
EltDetach ==
    /\ elt' = [elt EXCEPT !.reuseMode = TRUE]
    /\ call' = [op |-> "detach", subject |-> "", delivered |-> {}]
    /\ UNCHANGED exceptHTMLElement

\* attach(): reuse mode off
EltAttach ==
    /\ elt' = [elt EXCEPT !.reuseMode = FALSE]
    /\ call' = [op |-> "attach", subject |-> "", delivered |-> {}]
    /\ UNCHANGED exceptHTMLElement

\* subject.next(value)
SubjectNext ==
    \E subject \in Subjects :
        /\ elt' = elt
        /\ call' = [op |-> "next", subject |-> subject,
                    delivered |-> Delivered(elt, subject)]
        /\ UNCHANGED exceptHTMLElement

NextElt ==
    \/ EltAddSub
    \/ EltDisconnectedCallback
    \/ EltForceDestroy
    \/ EltDetach
    \/ EltAttach
    \/ SubjectNext

SpecElt == InitElt /\ [][NextElt]_vars

-----------------------------------------------------------------------------
(* Core_LangService: the label data of the current language, loaded by an  *)
(* asynchronous request under the lock ("api", targetAPI) of the resource   *)
(* service.  The requests in flight are kept with the language they asked   *)
(* for; a response is handled when the environment delivers it.             *)

Langs == {"fr", "en", "de"}

\* $svc('default').lang.api
targetAPI == JStr(<<"l", "o", "a", "d", "L", "a", "n", "g">>)

ApiType == <<"a", "p", "i">>

NoLabels == [isNull |-> TRUE, of |-> ""]
LabelsOf(l) == [isNull |-> FALSE, of |-> l]

\* the body the API answers to a request for the language l
ApiBody(status, l) == [status |-> status, data |-> [labels |-> LabelsOf(l)]]

\* what Core_AjaxService.getJSON emits for a body: the body wrapped, with
\* the HTTP status as status
getJSON(body) == [status |-> "200", data |-> body]

\* what the subscriber of a request for the language l can be handed: the
\* API body itself, a success or a language error, or the body wrapped
ResponsesOffered(l) ==
    {ApiBody("SUCCESS", l), ApiBody("LANG_ERROR", l), getJSON(ApiBody("SUCCESS", l))}

\* the constructor
Core_LangService(defaultLang) ==
    [currentLang |-> defaultLang, data |-> NoLabels, notif |-> NoLabels,
     resources |-> Core_ResourceService, inFlight |-> <<>>]

\* the request of getData, made once the lock is obtained
GetData_request(s, locked) ==
    IF locked.returned
    THEN [s EXCEPT !.resources = locked.r, !.inFlight = Append(@, s.currentLang)]
    ELSE s

\* getData(): lock is only called when #data is null
getData(s) ==
    IF s.data.isNull
    THEN GetData_request(s, lock(s.resources, ApiType, targetAPI))
    ELSE s

\* set lang(lang)
SetLang(s, l) ==
    IF s.currentLang # l
    THEN getData([s EXCEPT !.currentLang = l, !.data = NoLabels])
    ELSE s

GetData_unlock(s) == [s EXCEPT !.resources = unlock(s.resources, ApiType, targetAPI).r]

\* the subscriber of getData, handed a response
GetData_response(s, response) ==
    IF response.status = "SUCCESS"
    THEN [GetData_unlock(s) EXCEPT !.data = response.data.labels,
                                   !.notif = response.data.labels]
    ELSE [GetData_unlock(s) EXCEPT !.notif = NoLabels]

\* the sequence without its i-th element
Without(q, i) == SubSeq(q, 1, i - 1) \o SubSeq(q, i + 1, Len(q))

NoLangCall == [op |-> "constructor", lang |-> "", status |-> ""]

InitLang ==
    /\ lang = Core_LangService("fr")
    /\ call = NoLangCall
    /\ ds = NoDataSource
    /\ flt = NoFilter
    /\ vm = NoViewManager
    /\ repo = NoRepository
    /\ bds = NoBrowserDataSource
    /\ zip = NoZipService
    /\ res = NoResourceService
    /\ pipe = NoPipeline
    /\ elt = NoHTMLElement
    /\ rtr = NoRouter
    /\ grid = NoAgGridViewManager
    /\ ac = NoAutocomplete

LangGetData ==
    /\ lang' = getData(lang)
    /\ call' = [op |-> "getData", lang |-> "", status |-> ""]
    /\ UNCHANGED exceptLangService

LangSetLang ==
    \E l \in Langs :
        /\ lang' = SetLang(lang, l)
        /\ call' = [op |-> "set lang", lang |-> l, status |-> ""]
        /\ UNCHANGED exceptLangService

\* a request in flight is answered
LangResponse ==
    \E i \in DOMAIN lang.inFlight : \E response \in ResponsesOffered(lang.inFlight[i]) :
        /\ lang' = GetData_response([lang EXCEPT !.inFlight = Without(@, i)], response)
        /\ call' = [op |-> "response", lang |-> lang.inFlight[i],
                    status |-> response.status]
        /\ UNCHANGED exceptLangService

NextLang == LangGetData \/ LangSetLang \/ LangResponse

SpecLang == InitLang /\ [][NextLang]_vars

-----------------------------------------------------------------------------
(* Core_Router: the routes registered, the last match and the child         *)
(* component displayed.  Route patterns are literal strings, matched        *)
(* without regard to case as new RegExp(route, 'i') does; a component is   *)
(* the class of its route and the rank of its creation.  The scroll         *)
(* positions and the attributes kept for the children of a cached           *)
(* component are reduced to whether something is kept.                      *)

MaxRoutes == 2         \* a router is given at most MaxRoutes routes
MaxRouterCalls == 4    \* a router is followed for MaxRouterCalls calls of route

DONT_KEEP == 0
KEEP_NONE == 1
KEEP_SCROLLS == 2

RoutePatterns == {<<"/", "a">>, <<"/", "b">>}

URLs == {<<"/", "a">>, <<"/", "A">>, <<"/", "b">>, <<"/", "a", "/", "b">>, <<"/", "c">>}

NoChild == [class |-> <<>>, rank |-> 0]
NoMemory == [URL |-> <<>>, object |-> NoChild, parentScroll |-> FALSE,
             childrenAttributes |-> FALSE]

\* getBasicRouteParams() overlaid with the routeParams of the caller
RouteDesc(route, isDefault, keepRouteOption) ==
    [route |-> route, class |-> route, isDefault |-> isDefault,
     keepRouteOption |-> keepRouteOption, memory |-> NoMemory]

RoutesOffered ==
    {RouteDesc(route, isDefault, keep) :
        route \in RoutePatterns, isDefault \in BOOLEAN, keep \in {DONT_KEEP, KEEP_SCROLLS}}

\* the constructor; routes are numbered from 1, 0 is no route (index -1)
Core_Router ==
    [routes |-> <<>>, currentRoute |-> 0, currentChild |-> NoChild,
     lastMatch |-> <<>>, hasMatch |-> FALSE, lastEndPosition |-> 0,
     defaultRouteIndex |-> 0, created |-> 0]

\* addRoute(routeParams), for a complete description
addRoute(r, routeParams) ==
    [r EXCEPT !.routes = Append(@, routeParams),
              !.defaultRouteIndex = IF routeParams.isDefault THEN Len(r.routes) + 1 ELSE @]

\* the positions at which the pattern occurs in the url, case ignored
MatchPositions(route, url) ==
    {i \in 1..(Len(url) - Len(route) + 1) :
        ToLowerCase(SubSeq(url, i, i + Len(route) - 1)) = ToLowerCase(route)}

\* regExp.exec(url): the leftmost occurrence; matches[0] is the text of the url
Exec(route, url) ==
    IF MatchPositions(route, url) = {} THEN [found |-> FALSE, match |-> <<>>, index |-> 0]
    ELSE LET i == CHOOSE i \in MatchPositions(route, url) :
                      \A j \in MatchPositions(route, url) : i <= j
         IN [found |-> TRUE, match |-> SubSeq(url, i, i + Len(route) - 1), index |-> i - 1]

\* processRouteFound, first part: the component displayed is removed and,
\* if its route asks for it, kept in the memory of the route
RouteFound_remove(r) ==
    IF r.currentRoute = 0 THEN r
    ELSE LET kro == r.routes[r.currentRoute].keepRouteOption IN
         [r EXCEPT !.routes[r.currentRoute].memory =
                       IF kro = DONT_KEEP
                       THEN [@ EXCEPT !.object = NoChild, !.parentScroll = FALSE,
                                      !.childrenAttributes = FALSE]
                       ELSE IF kro = KEEP_NONE
                       THEN [@ EXCEPT !.object = r.currentChild, !.parentScroll = FALSE,
                                      !.childrenAttributes = FALSE]
                       ELSE [@ EXCEPT !.object = r.currentChild, !.parentScroll = TRUE,
                                      !.childrenAttributes = TRUE],
                   !.currentChild = NoChild]

\* second part: the component of the new route, taken from the memory of
\* the route if it was kept for the same url, else created
RouteFound_display(r, url, index) ==
    LET memory == r.routes[index].memory IN
    IF memory.object # NoChild /\ memory.URL = url
    THEN [r EXCEPT !.currentRoute = index, !.currentChild = memory.object]
    ELSE [r EXCEPT !.currentRoute = index,
                   !.currentChild = [class |-> r.routes[index].class, rank |-> r.created + 1],
                   !.created = @ + 1]

\* last part: the memory of the route displayed is reset
RouteFound_memory(r, url) ==
    [r EXCEPT !.routes[r.currentRoute].memory =
                 [URL |-> url, object |-> NoChild, parentScroll |-> FALSE,
                  childrenAttributes |-> FALSE]]

processRouteFound(r, url, index) ==
    RouteFound_memory(RouteFound_display(RouteFound_remove(r), url, index), url)

\* the routes.every of route(): the first route whose match is not the last
\* match is displayed and ends the loop
RECURSIVE Route_every(_, _, _)
Route_every(r, url, index) ==
    IF index > Len(r.routes) THEN [r |-> r, routeFound |-> FALSE]
    ELSE LET matches == Exec(r.routes[index].route, url) IN
         IF matches.found /\ ~(r.hasMatch /\ matches.match = r.lastMatch)
         THEN [r |-> processRouteFound(
                        [r EXCEPT !.lastMatch = matches.match, !.hasMatch = TRUE,
                                  !.lastEndPosition = matches.index],
                        matches.match, index),
               routeFound |-> TRUE]
         ELSE Route_every(r, url, index + 1)

\* the end of route(): the default route when no route was displayed
Route_default(e, url) ==
    IF ~e.routeFound /\ e.r.defaultRouteIndex >= 1
    THEN processRouteFound(e.r, url, e.r.defaultRouteIndex)
    ELSE e.r

\* route(paramURL)
route(r, url) == Route_default(Route_every(r, url, 1), url)

NoRouterCall == [n |-> 0, op |-> "constructor", url |-> <<>>]

InitRouter ==
    /\ rtr = Core_Router
    /\ call = NoRouterCall
    /\ ds = NoDataSource
    /\ flt = NoFilter
    /\ vm = NoViewManager
    /\ repo = NoRepository
    /\ bds = NoBrowserDataSource
    /\ zip = NoZipService
    /\ res = NoResourceService
    /\ pipe = NoPipeline
    /\ elt = NoHTMLElement
    /\ lang = NoLangService
    /\ grid = NoAgGridViewManager
    /\ ac = NoAutocomplete

\* the routes are registered before the router is used
RouterAddRoute ==
    \E routeParams \in RoutesOffered :
        /\ call.n = 0
        /\ Len(rtr.routes) < MaxRoutes
        /\ rtr' = addRoute(rtr, routeParams)
        /\ call' = [n |-> 0, op |-> "addRoute", url |-> <<>>]
        /\ UNCHANGED exceptRouter

RouterRoute ==
    \E url \in URLs :
        /\ call.n < MaxRouterCalls
        /\ rtr' = route(rtr, url)
        /\ call' = [n |-> call.n + 1, op |-> "route", url |-> url]
        /\ UNCHANGED exceptRouter

NextRouter == RouterAddRoute \/ RouterRoute

SpecRouter == InitRouter /\ [][NextRouter]_vars

\* ---------------------------------------------------------------------------
\* Core_AgGridViewManager (src/lib/data/agGrid/core-agGrid-view-manager.js):
\* a Core_ViewManager with getRows for a server-side driven grid.
\* ---------------------------------------------------------------------------

\* Array.prototype.splice(start, deleteCount) with 0 <= start: the removed
\* elements, deleteCount of them from index start on, as far as the array goes
Splice(a, start, deleteCount) ==
    LET from == IF start < Len(a) THEN start ELSE Len(a)
        count == IF deleteCount < Len(a) - from THEN deleteCount ELSE Len(a) - from
    IN  SubSeq(a, from + 1, from + count)

\* Math.min(gridParams.endRow, this.data.length)
GetRows_lastRow(v, endRow) == IF endRow < Len(v.data) THEN endRow ELSE Len(v.data)

\* getRows(gridParams): the two arguments handed to gridParams.successCallback
getRows(v, startRow, endRow) ==
    [rows |-> Splice(v.view, startRow, GetRows_lastRow(v, endRow)),
     total |-> Len(v.data)]

\* constructor(params): super(params)
Core_AgGridViewManager(use, pageSize) ==
    [v |-> Core_ViewManager(use, pageSize), handed |-> [rows |-> <<>>, total |-> 0]]

\* the startRow and endRow a grid asks for
GridRowIndexes == 0..(MaxRows + 1)

NoGridCall == [op |-> "constructor", startRow |-> 0, endRow |-> 0]

InitGrid ==
    /\ \E use \in BOOLEAN : grid = Core_AgGridViewManager(use, VMPageSize)
    /\ call = NoGridCall
    /\ ds = NoDataSource
    /\ flt = NoFilter
    /\ vm = NoViewManager
    /\ repo = NoRepository
    /\ bds = NoBrowserDataSource
    /\ zip = NoZipService
    /\ res = NoResourceService
    /\ pipe = NoPipeline
    /\ elt = NoHTMLElement
    /\ lang = NoLangService
    /\ rtr = NoRouter
    /\ ac = NoAutocomplete

GridUpdateDataArray ==
    \E n \in 0..MaxRows :
        /\ grid' = [grid EXCEPT !.v = updateDataArray(grid.v, Rows(n))]
        /\ call' = [op |-> "updateDataArray", startRow |-> 0, endRow |-> 0]
        /\ UNCHANGED exceptAgGridViewManager

GridSelectPage ==
    \E pageIndex \in PageIndexes :
        /\ grid' = [grid EXCEPT !.v = selectPage(grid.v, pageIndex)]
        /\ call' = [op |-> "selectPage", startRow |-> 0, endRow |-> 0]
        /\ UNCHANGED exceptAgGridViewManager

GridGetRows ==
    \E startRow \in GridRowIndexes : \E endRow \in GridRowIndexes :
        /\ startRow <= endRow
        /\ grid' = [grid EXCEPT !.handed = getRows(grid.v, startRow, endRow)]
        /\ call' = [op |-> "getRows", startRow |-> startRow, endRow |-> endRow]
        /\ UNCHANGED exceptAgGridViewManager

NextGrid ==
    \/ GridUpdateDataArray
    \/ GridSelectPage
    \/ GridGetRows

SpecGrid == InitGrid /\ [][NextGrid]_vars

\* ---------------------------------------------------------------------------
\* AutocompleteComponent
\* (src/components/semantic-ui/autocomplete/autocomplete-component.js): the
\* debounced input handler, performSearch over the kinds of data source, and
\* the results it holds. A search handed to a Promise or an Observable stays
\* in flight until the data source answers; the answers come in any order.
\* ---------------------------------------------------------------------------

minCharacters == 3   \* #config.minCharacters
maxResults == 10     \* #config.maxResults
MaxAcInputs == 4     \* handleInputChange is called at most MaxAcInputs times

\* the values typed into the input
AcValues == {<<>>, <<"a", "b">>, <<"a", "b", "c">>, <<"a", "b", "d">>}

\* the items a data source searches
AcItems == <<<<"a", "b", "c">>, <<"a", "b", "d">>, <<"A", "B", "C", "D">>>>

\* setDataSource: an array, a function returning a Promise, a function
\* returning an Observable, or none
DataSources == {"array", "promise", "observable", "null"}

\* an array of results, and the { results: data } object built for Semantic UI
JArr(items) == [t |-> "array", items |-> items]
ResultsObject(data) == [t |-> "object", results |-> data]

AutocompleteComponent(dataSource) ==
    [dataSource |-> dataSource,
     results |-> <<>>,
     searchTimeout |-> [armed |-> FALSE, value |-> <<>>],
     loading |-> FALSE,
     pending |-> <<>>]

\* handleInputChange(value): clearTimeout of the timer that waits, setTimeout
\* of a new one
handleInputChange(a, value) ==
    [a EXCEPT !.searchTimeout = [armed |-> TRUE, value |-> value]]

\* getItemText(item) on a string item
getItemText(item) == item

\* filterArrayData(data, query)
filterArrayData(data, query) ==
    LET matches(item) == Includes(ToLowerCase(getItemText(item)), ToLowerCase(query))
    IN  Slice(SelectSeq(data, matches), 0, maxResults)

\* updateResults(results): results.results when results is the Semantic UI
\* object (an array is truthy), and the empty array for what is no array
updateResults(a, results) ==
    LET resultsArray == IF results.t = "object" THEN results.results ELSE results
    IN  [a EXCEPT !.results = IF resultsArray.t = "array" THEN resultsArray.items ELSE <<>>]

clearResults(a) == [a EXCEPT !.results = <<>>]

setLoading(a, loading) == [a EXCEPT !.loading = loading]

\* the answers a data source function can give to a query: the matching items,
\* or a rejection (an error of the Observable)
AnswersFor(query) == {[ok |-> TRUE, data |-> filterArrayData(AcItems, query)],
                      [ok |-> FALSE, data |-> <<>>]}

\* performSearch(query) up to the await or the subscribe: answer is what the
\* data source will say
performSearch(a, query, answer) ==
    IF Len(query) < minCharacters
    THEN clearResults(a)
    ELSE LET l == setLoading(a, TRUE)
             asked(kind) == [l EXCEPT !.pending =
                                Append(@, [query |-> query, answer |-> answer, kind |-> kind])]
         IN  CASE a.dataSource = "promise" -> asked("promise")
               [] a.dataSource = "observable" -> setLoading(asked("observable"), FALSE)
               [] a.dataSource = "array" ->
                    setLoading(updateResults(l, JArr(filterArrayData(AcItems, query))), FALSE)
               [] OTHER -> setLoading(updateResults(l, JArr(<<>>)), FALSE)

\* the rest of performSearch once the data source has answered search i:
\* after the await of the Promise (updateResults, or the catch, then finally),
\* or in the next and error callbacks of the Observable
PerformSearch_settle(a, i) ==
    LET p == a.pending[i]
        rest == [a EXCEPT !.pending = Without(a.pending, i)]
    IN  IF p.kind = "promise"
        THEN setLoading(updateResults(rest, JArr(p.answer.data)), FALSE)
        ELSE updateResults(rest, ResultsObject(JArr(p.answer.data)))

\* a search is sent to a data source that answers later
IsAsked(a, query) ==
    Len(query) >= minCharacters /\ a.dataSource \in {"promise", "observable"}

NoAcCall == [op |-> "constructor", value |-> <<>>, burst |-> <<>>, several |-> FALSE,
             latest |-> <<>>, n |-> 0]

InitAc ==
    /\ \E dataSource \in DataSources : ac = AutocompleteComponent(dataSource)
    /\ call = NoAcCall
    /\ ds = NoDataSource
    /\ flt = NoFilter
    /\ vm = NoViewManager
    /\ repo = NoRepository
    /\ bds = NoBrowserDataSource
    /\ zip = NoZipService
    /\ res = NoResourceService
    /\ pipe = NoPipeline
    /\ elt = NoHTMLElement
    /\ lang = NoLangService
    /\ rtr = NoRouter
    /\ grid = NoAgGridViewManager

\* an input event; burst holds the values typed since the timer was last armed
\* from rest
AcHandleInputChange ==
    \E value \in AcValues :
        /\ call.n < MaxAcInputs
        /\ ac' = handleInputChange(ac, value)
        /\ call' = [call EXCEPT !.op = "handleInputChange", !.value = value,
                                !.burst = IF ac.searchTimeout.armed
                                          THEN Append(@, value) ELSE <<value>>,
                                !.n = @ + 1]
        /\ UNCHANGED exceptAutocomplete

\* the delay has passed since the last input: the timer calls performSearch;
\* latest is what the data source will answer to the search issued last, and
\* several tells that a search was issued while another was in flight
AcTimeout ==
    /\ ac.searchTimeout.armed
    /\ \E answer \in AnswersFor(ac.searchTimeout.value) :
          LET value == ac.searchTimeout.value
              idle == [ac EXCEPT !.searchTimeout.armed = FALSE]
          IN  /\ ac' = performSearch(idle, value, answer)
              /\ call' = [call EXCEPT
                            !.op = "performSearch", !.value = value,
                            !.several = IF ac.pending = <<>> THEN FALSE
                                        ELSE IF IsAsked(ac, value) THEN TRUE ELSE @,
                            !.latest = IF IsAsked(ac, value) THEN answer.data ELSE @]
    /\ UNCHANGED exceptAutocomplete

\* a data source answers one of the searches in flight
AcSettle ==
    \E i \in DOMAIN ac.pending :
        /\ ac' = PerformSearch_settle(ac, i)
        /\ call' = [call EXCEPT !.op = "settle", !.value = ac.pending[i].query]
        /\ UNCHANGED exceptAutocomplete

NextAc ==
    \/ AcHandleInputChange
    \/ AcTimeout
    \/ AcSettle

SpecAc == InitAc /\ [][NextAc]_vars

-----------------------------------------------------------------------------
(* The properties checked.                                                 *)

LinesOf(m) == {m[i] : i \in DOMAIN m}

DistinctKeys(lines) == Cardinality(MapKeys(lines)) = Len(lines)

\* line passes every filter that is active under the filter values fv
PassesAll(filterDef, fv, line) ==
    \A i \in DOMAIN filterDef :
        ActiveOrNot(filterDef[i].filter, FilterValue(fv, filterDef[i].name)).ret =>
            /\ ~Test(ActiveOrNot(filterDef[i].filter,
                                 FilterValue(fv, filterDef[i].name)).filter, line).raised
            /\ Test(ActiveOrNot(filterDef[i].filter,
                                FilterValue(fv, filterDef[i].name)).filter, line).ret

\* the contexts whose computeContextView the last call ran to its end
Recomputed ==
    IF call.raised THEN {}
    ELSE IF call.op = "dataUpdated" /\ call.mode = FULL /\ DistinctKeys(ds.dataArray.lines)
    THEN CtxRefs(ds.contexts)
    ELSE IF /\ call.op = "updateContextFilters"
            /\ ds.params.updateViewWhenOnFilterChange
            /\ ds.activeContext # 0
    THEN {ds.activeContext}
    ELSE {}

\* C1: after computeContextView(context), reached through a FULL ingest of a
\* batch with pairwise distinct keys or through updateContextFilters with
\* auto-refresh on, the view of the context holds exactly the records of the
\* canonical store that pass every filter active under the context's values.
C1_RecomputedViewIsFilteredStore ==
    \A ref \in Recomputed :
        LinesOf(ds.heap[ref].view) =
            {line \in LinesOf(ds.data.lines) :
                PassesAll(ds.filterDef, ds.heap[ref].filterValues, line)}

\* the views a FULL ingest of the canonical store would leave
ViewsAfterFull(d) ==
    [i \in DOMAIN d.contexts |->
        LinesOf(dataUpdated(Work(d), d.data.lines, FULL).d.heap[d.contexts[i].ref].view)]

Views(d) == [i \in DOMAIN d.contexts |-> LinesOf(d.heap[d.contexts[i].ref].view)]

\* C2: delta/full equivalence.  A DELTA_ADD ingest that directly follows a FULL
\* ingest (so no filter value changed since the recompute) leaves every context
\* with the view a FULL ingest of the resulting canonical store would produce.
C2_DeltaEqualsFull ==
    [][(/\ call.op = "dataUpdated" /\ call.mode = FULL /\ ~call.raised
        /\ call'.op = "dataUpdated" /\ call'.mode = DELTA_ADD /\ ~call'.raised)
       => Views(ds') = ViewsAfterFull(ds')]_vars

\* C3: after a dataUpdated call (FULL or DELTA_ADD, batches may repeat a key),
\* every key of every context's view is a key of the canonical store and the
\* view holds the record the store holds under that key.
C3_ViewRecordsAreStoreRecords ==
    (call.op = "dataUpdated" /\ call.mode \in {FULL, DELTA_ADD} /\ ~call.raised) =>
        \A i \in DOMAIN ds.contexts : \A line \in LinesOf(ds.heap[ds.contexts[i].ref].view) :
            /\ MapHas(ds.data.lines, line.id)
            /\ MapGet(ds.data.lines, line.id) = line

ExactlyOneActive(d) ==
    Len(d.contexts) >= 1 =>
        /\ Cardinality({r \in CtxRefs(d.contexts) : d.heap[r].isActive}) = 1
        /\ d.activeContext \in CtxRefs(d.contexts)
        /\ d.heap[d.activeContext].isActive

\* C4: whenever the data source holds at least one context, exactly one of the
\* contexts it holds has isActive = true and it is the one activeContext
\* returns; setActiveContext with an unknown name changes nothing.
C4_ExactlyOneActiveContext ==
    [][/\ ExactlyOneActive(ds')
       /\ (call'.op = "setActiveContext" /\ ~CtxHas(ds.contexts, call'.name)) => ds' = ds]_vars

\* C5: updateContextFilters(values) merges: afterwards every name in values has
\* the new value and every value the context held before and values does not
\* name is still the value handed to that filter's activeOrNot.
C5_UpdateMergesFilterValues ==
    [][(call'.op = "updateContextFilters" /\ ds.activeContext # 0) =>
          /\ \A k \in DOMAIN call'.filterValues :
                FilterValue(ds'.heap[ds'.activeContext].filterValues, k) =
                    call'.filterValues[k]
          /\ \A k \in DOMAIN ds.heap[ds.activeContext].filterValues
                        \ DOMAIN call'.filterValues :
                FilterValue(ds'.heap[ds'.activeContext].filterValues, k) =
                    ds.heap[ds.activeContext].filterValues[k]]_vars

\* C6: a string filter with level EQUALS and case-insensitive matching,
\* activated with a value v, passes a line exactly when the line's field,
\* case-folded, equals v trimmed and case-folded, and test does not raise
\* (Ann passes and Bob fails for the value ann).
C6_EqualsTestsEquality ==
    (/\ call.op = "test"
     /\ flt.class = "Core_StringFilter"
     /\ flt.comparisonLevel = EQUALS /\ flt.testCase = FALSE /\ flt.trimValue
     /\ Trim(flt.filterValue.s) # <<>>) =>
        /\ ~call.raised
        /\ call.ret = (ToLowerCase(call.line.name) = ToLowerCase(Trim(flt.filterValue.s)))

\* C7: for an int filter with dontTestZero = true and isMultiple = false,
\* activeOrNot(0) returns false (the filter is then never tested, so that a
\* filter value 0 excludes no line).
C7_ZeroIsInactive ==
    (/\ call.op = "activeOrNot" /\ flt.class = "Core_IntFilter"
     /\ flt.dontTestZero /\ call.value = JNum(0)) => call.ret = FALSE

\* the number of pages of pageSize rows needed for n rows, at least 1
PagesNeeded(n, pageSize) == Max(1, (n + pageSize - 1) \div pageSize)

\* C8: in Core_ViewManager with pagination enabled, after any sequence of calls
\* that follows the first updateDataArray, 1 <= currentPage <= pageCount and
\* pageCount is the number of pages needed for the data.
C8_CurrentPageWithinPages ==
    (vm.use /\ call.loaded) =>
        /\ vm.pagination_currentPage.t = "number"
        /\ 1 <= vm.pagination_currentPage.n
        /\ vm.pagination_currentPage.n <= vm.pagination_nbPages
        /\ vm.pagination_nbPages = PagesNeeded(Len(vm.data), vm.pageSize)

\* the last call ran computeContextView
RecomputeCall ==
    \/ call.op = "dataUpdated" /\ call.mode = FULL
    \/ call.op = "updateContextFilters" /\ ds.params.updateViewWhenOnFilterChange
    \/ call.op = "setActiveContext" /\ ds.params.onContextSelectedMode = COMPUTE_VIEW

\* C9: when pageSize > 0, every view-updated notification emitted after a
\* recompute carries integers currentPage and nbPages with
\* 1 <= currentPage <= nbPages, nbPages being the number of pages needed for
\* the active context's view, and the active context stores the same values.
C9_NotifiedPagesAreValid ==
    (ds.params.pageSize > 0 /\ RecomputeCall) =>
        \A i \in DOMAIN call.notifs :
            call.notifs[i].kind = "viewUpdated" =>
                /\ call.notifs[i].currentPage.t = "number"
                /\ call.notifs[i].nbPages.t = "number"
                /\ 1 <= call.notifs[i].currentPage.n
                /\ call.notifs[i].currentPage.n <= call.notifs[i].nbPages.n
                /\ call.notifs[i].nbPages.n =
                      PagesNeeded(Len(ds.heap[ds.activeContext].view), ds.params.pageSize)
                /\ ds.heap[ds.activeContext].currentPage = call.notifs[i].currentPage
                /\ ds.heap[ds.activeContext].nbPages = call.notifs[i].nbPages

\* the data source holds main and alt, and main is the active context
MainActiveWithAlt(d) ==
    /\ CtxHas(d.contexts, "main") /\ CtxHas(d.contexts, "alt")
    /\ d.activeContext = CtxGet(d.contexts, "main")

\* C10: with main active and alt held, updating the filter values of alt
\* (auto-refresh on) makes exactly alt emit a context-updated notification,
\* fires no view-updated notification and leaves main's filter values and view.
C10_UpdateOfAltLeavesMain ==
    [][(/\ MainActiveWithAlt(ds)
        /\ ds.params.updateViewWhenOnFilterChange
        /\ call'.op = "updateContextFilters" /\ call'.name = "alt") =>
          /\ Len(call'.notifs) = 1
          /\ call'.notifs[1].kind = "contextUpdated"
          /\ call'.notifs[1].context = CtxGet(ds'.contexts, "alt")
          /\ ds'.heap[CtxGet(ds'.contexts, "main")].filterValues =
                ds.heap[CtxGet(ds.contexts, "main")].filterValues
          /\ ds'.heap[CtxGet(ds'.contexts, "main")].view =
                ds.heap[CtxGet(ds.contexts, "main")].view]_vars

\* C11: with updateViewWhenOnFilterChange = false the values handed to
\* updateContextFilters are staged.  Directly after a FULL ingest (every context
\* recomputed under its values), an updateContextFilters call changes nothing
\* in what a DELTA_ADD ingest does before the next recompute: for every batch
\* the delta leaves the views it would have left without the update.
C11_StagedValuesTakeNoPart ==
    [][(/\ call.op = "dataUpdated" /\ call.mode = FULL /\ ~call.raised
        /\ ~ds.params.updateViewWhenOnFilterChange
        /\ call'.op = "updateContextFilters" /\ ~call'.raised) =>
          \A batch \in Batches :
              ~dataUpdated(Work(ds'), batch, DELTA_ADD).raised =>
                  Views(dataUpdated(Work(ds'), batch, DELTA_ADD).d) =
                      Views(dataUpdated(Work(ds), batch, DELTA_ADD).d)]_vars

\* C12: after any ingest by dataUpdated (FULL or DELTA_ADD) the canonical
\* collection of the data source, the keyed map and the record array that a
\* recompute scans, holds exactly one entry per distinct primary-key value.
C12_OneEntryPerKey ==
    (call.op = "dataUpdated" /\ call.mode \in {FULL, DELTA_ADD} /\ ~call.raised) =>
        /\ DistinctKeys(ds.data.lines)
        /\ DistinctKeys(ds.dataArray.lines)
        /\ MapKeys(ds.dataArray.lines) = MapKeys(ds.data.lines)

\* the repository's keyed map holds one entry per key (the part of C12 that is
\* about Core_DataRepository.updateDataArray)
RepositoryOneEntryPerKey == DistinctKeys(repo.dataMap)

\* the positions of the batch whose record has a value at the primary key
WithKey(data) == {i \in DOMAIN data : data[i].id # JUndefined}

Occurrences(lines, line) == Cardinality({i \in DOMAIN lines : lines[i] = line})

\* C19: updateDataArray rejects exactly the records of the batch that have no
\* value at the primary-key field (0 is a value), stores every other record
\* under its key, and reports each stored record in exactly one of addedLines
\* and updatedLines.
C19_RejectsExactlyKeylessRecords ==
    (call.op = "updateDataArray" /\ call.isArray) =>
        /\ Len(call.errors) = Len(call.data) - Cardinality(WithKey(call.data))
        /\ Len(call.addedLines) + Len(call.updatedLines) = Cardinality(WithKey(call.data))
        /\ \A i \in WithKey(call.data) :
              /\ MapHas(repo.dataMap, call.data[i].id)
              /\ Occurrences(call.addedLines \o call.updatedLines, call.data[i]) =
                    Occurrences(call.data, call.data[i])

\* the contexts on which the last call ran computeContextView to its end
RecomputedContexts ==
    IF call.raised \/ call.errors # <<>> THEN {}
    ELSE IF call.op = "dataUpdated" /\ call.mode = FULL THEN CtxRefs(ds.contexts)
    ELSE IF RecomputeCall THEN {ds.activeContext}
    ELSE {}

\* C13: running computeContextView a second time on a context that was just
\* recomputed, with nothing changed in between, yields the identical view:
\* same keys, same records, same iteration order.
C13_RecomputeIsIdempotent ==
    \A ref \in RecomputedContexts :
        /\ ~computeContextView(Work(ds), ref).raised
        /\ computeContextView(Work(ds), ref).d.heap[ref].view = ds.heap[ref].view

\* a recompute has just kept some lines of the data and left others out
C13_Witness ==
    \E ref \in RecomputedContexts :
        /\ Len(ds.heap[ref].view) >= 1
        /\ Len(ds.heap[ref].view) < Len(ds.dataArray.lines)
        /\ DistinctKeys(ds.dataArray.lines)

\* what dataUpdated(batch, DELTA_REMOVE) makes of the current state
DeltaRemoved(batch) == dataUpdated(Work(ds), batch, DELTA_REMOVE)

\* C14: once data is loaded, dataUpdated(records, DELTA_REMOVE) deletes the
\* records' keys from the canonical store and from every context view.
C14_DeltaRemoveDeletes ==
    ~ds.data.isNull =>
        \A batch \in Batches : \A i \in DOMAIN batch :
            /\ ~DeltaRemoved(batch).raised
            /\ ~MapHas(DeltaRemoved(batch).d.data.lines, batch[i].id)
            /\ \A ref \in CtxRefs(ds.contexts) :
                  ~MapHas(DeltaRemoved(batch).d.heap[ref].view, batch[i].id)

InSeq(lines, line) == \E i \in DOMAIN lines : lines[i] = line

HasKey(lines, key) == \E i \in DOMAIN lines : lines[i].id = key

\* the incoming addedLines of the update whose key the view already holds and
\* that no other list of the same update names
ReAdded(view, updateObject) ==
    {line \in {updateObject.addedLines[i] : i \in DOMAIN updateObject.addedLines} :
        /\ MapHas(view, line.id)
        /\ ~HasKey(updateObject.deletedLines, line.id)
        /\ ~HasKey(updateObject.updatedLines, line.id)}

\* C15: in updateData a line delivered in addedLines whose key is already in
\* the view is treated as an update: when it passes the active filters it is
\* reported in the outgoing updatedLines and not in addedLines; when it does
\* not, it is removed from the view and reported in deletedLines.
C15_ReAddedLineIsAnUpdate ==
    [][(call'.op = "updateData" /\ ~call'.raised) =>
          \A line \in ReAdded(bds.dataMap, call'.updateObject) :
              IF Bds_testLine(bds, line).ret
              THEN /\ InSeq(call'.updatedLines, line)
                   /\ ~InSeq(call'.addedLines, line)
              ELSE /\ ~MapHas(bds'.dataMap, line.id)
                   /\ InSeq(call'.deletedLines, line)]_vars

\* C16: addContext with a name that is already registered is a reported error
\* that leaves the data source unchanged: the context object, its filter
\* values, its view and the active designation are kept.
C16_DuplicateContextIsRejected ==
    [][(call'.op = "addContext" /\ CtxHas(ds.contexts, call'.name)) =>
          /\ call'.errors # <<>>
          /\ ds' = ds]_vars

\* C17: with the data source's default parameters, setActiveContext(name) for
\* a known name only moves the active designation: no view is recomputed and
\* neither a view-updated nor a context-updated notification is emitted.
C17_DefaultSelectionIsSilent ==
    [][(/\ ds.params = Params(FALSE, 0, 0)
        /\ call'.op = "setActiveContext"
        /\ CtxHas(ds.contexts, call'.name)) =>
          /\ call'.notifs = <<>>
          /\ ds'.activeContext = CtxGet(ds'.contexts, call'.name)
          /\ Views(ds') = Views(ds)]_vars

\* the page of the view a view-updated payload built now would carry
ActiveViewNow(d) ==
    ViewUpdatedPayload(d.heap[d.activeContext], d.activeContext, d.params.pageSize).view

\* C18: a subscriber to the view-updated stream that subscribes after at least
\* one emission immediately receives the most recently emitted payload, and
\* that payload describes the view of the context active at subscription time.
C18_ReplayDescribesActiveView ==
    ~SubscribeViewUpdated(ds).isNull =>
        /\ ds.activeContext # 0
        /\ SubscribeViewUpdated(ds).payload.view = ActiveViewNow(ds)

\* the labels that have been given an id
Interned(z) == {z.labelToId[i].key : i \in DOMAIN z.labelToId}

\* C20: within one context and data type the label-id mapping is append-only:
\* once a label has an id, getIdFromLabel for the label and getLabelFromId for
\* the id return the same pair in every later state until resetContext, and no
\* id is mapped to a second label.
C20_MappingIsAppendOnly ==
    [][(call'.op # "resetContext") =>
          \A label \in Interned(zip) :
              /\ getIdFromLabel(zip', label) = getIdFromLabel(zip, label)
              /\ getLabelFromId(zip', getIdFromLabel(zip, label)) = label]_vars

\* the pairs on which the service holds a lock
HeldPairs(r) ==
    {p \in ResourcePairs : KvHas(r.resources, makeKey(p.type, p.key))}

\* C21: lock(type, key) returns true exactly when no lock on the pair is
\* held, and then holds that pair and no other; unlock(type, key) returns
\* true exactly when the pair was held, and releases that pair and no other.
C21_LockIsPerPair ==
    [][LET p == [type |-> call'.type, key |-> call'.key] IN
       /\ call'.op = "lock" =>
            /\ call'.returned = (p \notin HeldPairs(res))
            /\ HeldPairs(res') = HeldPairs(res) \cup {p}
       /\ call'.op = "unlock" =>
            /\ call'.returned = (p \in HeldPairs(res))
            /\ HeldPairs(res') = HeldPairs(res) \ {p}]_vars

\* selectPage was given a page of the manager: pagination on, 1 <= n <= pageCount
ValidPage(v, n) == v.use /\ n.t = "number" /\ 1 <= n.n /\ n.n <= v.pagination_nbPages

\* C22: each mutating call on Core_ViewManager (updateDataArray, updateSortModel
\* with a non-null sort model, selectPage with a valid page) emits exactly one
\* view-updated notification; a rejected selectPage emits none.
C22_OneNotificationPerMutatingCall ==
    /\ call.op = "updateDataArray" => Len(call.notifs) = 1
    /\ call.op = "updateSortModel" => Len(call.notifs) = 1
    /\ call.op = "selectPage" =>
          Len(call.notifs) = IF ValidPage(vm, call.arg) THEN 1 ELSE 0

\* the rows (n-1)*pageSize to n*pageSize-1 of the data, fewer on the last page
RowsOfPage(data, n, pageSize) ==
    [i \in 1..((IF n * pageSize < Len(data) THEN n * pageSize ELSE Len(data))
               - (n - 1) * pageSize) |-> data[(n - 1) * pageSize + i]]

\* C23: selectPage(n) with pagination enabled and 1 <= n <= pageCount makes n
\* the current page and the rows of page n the view; any other selectPage
\* reports an error and leaves current page, page count and view unchanged.
C23_SelectPageValidates ==
    [][call'.op = "selectPage" =>
         IF ValidPage(vm, call'.arg)
         THEN /\ vm'.pagination_currentPage = call'.arg
              /\ vm'.view = RowsOfPage(vm.data, call'.arg.n, vm.pageSize)
         ELSE /\ call'.errors # <<>>
              /\ vm'.pagination_currentPage = vm.pagination_currentPage
              /\ vm'.pagination_nbPages = vm.pagination_nbPages
              /\ vm'.view = vm.view]_vars

\* C24: every view-updated notification of Core_ViewManager carries the total
\* row count of the data, the view of the manager and the current page the
\* manager holds after the call.
C24_NotificationCarriesCurrentPage ==
    call.op \in {"updateDataArray", "updateSortModel", "selectPage"} =>
        \A i \in DOMAIN call.notifs :
            /\ call.notifs[i].nbLinesTotal = Len(vm.data)
            /\ call.notifs[i].view = vm.view
            /\ call.notifs[i].currentPage = vm.pagination_currentPage

\* the records of a Map that pass the active filters of a browser data source
Passing(b, m) == {m[i] : i \in {j \in DOMAIN m : Bds_testLine(b, m[j]).ret}}

\* the records of a Map
Records(m) == {m[i] : i \in DOMAIN m}

\* C25: in the pipeline repository -> A -> B, after any sequence of
\* updateDataArray, removeDataByKeys and reset on the repository, A's view is
\* exactly the repository records passing A's active filters and B's view is
\* exactly the records of A's view passing B's active filters.
C25_PipelineViewsAreFiltered ==
    /\ Records(pipe.a.dataMap) = Passing(pipe.a, pipe.repo.dataMap)
    /\ Records(pipe.b.dataMap) = Passing(pipe.b, pipe.a.dataMap)

\* the last call ran refreshData to its end: refreshData itself, or
\* updateFilterValues with auto-refresh on and a reference map that has records
RefreshRan ==
    /\ ~call'.raised
    /\ \/ call'.op = "refreshData"
       \/ /\ call'.op = "updateFilterValues"
          /\ bds.updateViewWhenOnFilterChange
          /\ Len(bds.refDataMap) > 0

\* the primary keys of a list of lines
KeysOf(lines) == {lines[i].id : i \in DOMAIN lines}

\* the view holds no record that the reference map has not
ViewWithinReference(b) == \A l \in Records(b.dataMap) : MapHas(b.refDataMap, l.id)

\* C26: after refreshData on a view taken from the reference map, whatever the
\* primary-key field is named, the view holds exactly the reference-map
\* records that pass every active filter, and every record that was in the
\* view and is no longer is reported in deletedLines.
C26_RefreshRecomputesView ==
    [][(RefreshRan /\ ViewWithinReference(bds)) =>
         /\ Records(bds'.dataMap) = Passing(bds', bds'.refDataMap)
         /\ \A l \in Records(bds.dataMap) :
               ~MapHas(bds'.dataMap, l.id) => l.id \in KeysOf(call'.deletedLines)]_vars

\* the last call destroyed the element: disconnectedCallback outside reuse
\* mode, or forceDestroy
Destroyed ==
    \/ call'.op = "disconnectedCallback" /\ elt.reuseMode = FALSE
    \/ call'.op = "forceDestroy"

\* C27: after a Core_HTMLElement is disconnected outside reuse mode or
\* forceDestroy is called, every subscription registered through addSub is
\* unsubscribed, however many there are, and no subject delivers to it.
C27_CleanSubsUnsubscribesAll ==
    [][Destroyed =>
         /\ \A i \in DOMAIN elt'.subs : elt'.subs[i].closed
         /\ \A subject \in Subjects : Delivered(elt', subject) = {}]_vars

\* what dataUpdated(batch, DELTA_ADD) makes of the current state
DeltaAdded(batch) == dataUpdated(Work(ds), batch, DELTA_ADD)

\* the record passes the filters active under the context's filter values
Passes(ref, line) == PassesAll(ds.filterDef, ds.heap[ref].filterValues, line)

\* the records of the batch before the i-th that carry its key
Earlier(batch, i) == {j \in 1..(i - 1) : batch[j].id = batch[i].id}

\* the key of the i-th record is in the view when the record is reached: the
\* last earlier record with the key passed, or no earlier record has the key
\* and the view held it before the ingest
Present(ref, batch, i) ==
    IF Earlier(batch, i) = {} THEN MapHas(ds.heap[ref].view, batch[i].id)
    ELSE Passes(ref, batch[CHOOSE j \in Earlier(batch, i) :
                               \A k \in Earlier(batch, i) : k <= j])

Class(ref, batch, i) ==
    CASE Passes(ref, batch[i]) /\ Present(ref, batch, i) -> "updates"
      [] Passes(ref, batch[i]) /\ ~Present(ref, batch, i) -> "enters"
      [] ~Passes(ref, batch[i]) /\ Present(ref, batch, i) -> "leaves"
      [] OTHER -> "stays-out"

\* the records of a class, the last one per key (the sets are keyed Maps)
Classified(ref, batch, class) ==
    {batch[i] : i \in {j \in DOMAIN batch :
        /\ Class(ref, batch, j) = class
        /\ \A k \in DOMAIN batch :
              (k > j /\ batch[k].id = batch[j].id) => Class(ref, batch, k) # class}}

\* the context-updated notifications of a context among those of a call
ContextNotifs(notifs, ref) ==
    {i \in DOMAIN notifs : notifs[i].kind = "contextUpdated" /\ notifs[i].context = ref}

\* the outcome w of an ingest of the batch agrees with the classification:
\* the three sets of each context's notification, no notification only when
\* every record stays out, the view afterwards
Classifies(w, batch) ==
    \A ref \in CtxRefs(ds.contexts) :
        /\ \A i \in ContextNotifs(w.notifs, ref) :
              /\ LinesOf(w.notifs[i].addedLines) = Classified(ref, batch, "enters")
              /\ LinesOf(w.notifs[i].deletedLines) = Classified(ref, batch, "leaves")
              /\ LinesOf(w.notifs[i].updatedLines) = Classified(ref, batch, "updates")
        /\ ContextNotifs(w.notifs, ref) = {} =>
              \A i \in DOMAIN batch : Class(ref, batch, i) = "stays-out"
        /\ \A i \in DOMAIN batch :
              (\A k \in DOMAIN batch : k > i => batch[k].id # batch[i].id) =>
                  IF Passes(ref, batch[i])
                  THEN /\ MapHas(w.d.heap[ref].view, batch[i].id)
                       /\ MapGet(w.d.heap[ref].view, batch[i].id) = batch[i]
                  ELSE ~MapHas(w.d.heap[ref].view, batch[i].id)
        /\ \A line \in LinesOf(ds.heap[ref].view) :
              (\A i \in DOMAIN batch : batch[i].id # line.id) =>
                  /\ MapHas(w.d.heap[ref].view, line.id)
                  /\ MapGet(w.d.heap[ref].view, line.id) = line

\* C28: in computeDeltaAddForContexts, for every context and every record of
\* the batch: one that fails the filters and is absent changes nothing and is
\* reported nowhere; one that passes and is absent is added and reported in
\* addedLines; one that fails and is present is removed and reported in
\* deletedLines; one that passes and is present replaces the view's record and
\* is reported in updatedLines.
C28_DeltaClassifiesEachRecord ==
    \A batch \in Batches : Classifies(DeltaAdded(batch), batch)

\* the same for the ingests that run to their end without throwing
DeltaClassifiesUnlessThrown ==
    \A batch \in Batches : ~DeltaAdded(batch).raised => Classifies(DeltaAdded(batch), batch)

\* at least one record of the batch enters, leaves or updates the context's view
Changed(ref, batch) == \E i \in DOMAIN batch : Class(ref, batch, i) # "stays-out"

ViewNotifs(notifs) == {i \in DOMAIN notifs : notifs[i].kind = "viewUpdated"}

\* the notifications of the outcome w of an ingest of the batch: one
\* context-updated per context that changed and none for the others, one
\* view-updated when the active context changed and none otherwise, the
\* view-updated after every context-updated
NotifiesOncePerChange(w, batch) ==
    /\ \A ref \in CtxRefs(ds.contexts) :
          Cardinality(ContextNotifs(w.notifs, ref)) = IF Changed(ref, batch) THEN 1 ELSE 0
    /\ \A i \in DOMAIN w.notifs :
          w.notifs[i].kind = "contextUpdated" => w.notifs[i].context \in CtxRefs(ds.contexts)
    /\ Cardinality(ViewNotifs(w.notifs)) =
          IF ds.activeContext \in CtxRefs(ds.contexts) /\ Changed(ds.activeContext, batch)
          THEN 1 ELSE 0
    /\ \A i \in ViewNotifs(w.notifs) : \A j \in DOMAIN w.notifs :
          w.notifs[j].kind = "contextUpdated" => j < i

\* C29: during one dataUpdated(batch, DELTA_ADD) a context emits a
\* context-updated notification iff at least one of its added, updated or
\* deleted sets is non-empty, and at most one; a view-updated notification is
\* emitted iff the active context is among the contexts that changed, exactly
\* once, and after all context-updated notifications of the ingest.
C29_DeltaNotifiesOncePerChange ==
    \A batch \in Batches : NotifiesOncePerChange(DeltaAdded(batch), batch)

\* the same for the ingests that run to their end without throwing
DeltaNotifiesUnlessThrown ==
    \A batch \in Batches :
        ~DeltaAdded(batch).raised => NotifiesOncePerChange(DeltaAdded(batch), batch)

FullLoaded(batch) == dataUpdated(Work(ds), batch, FULL)

\* the positions of the context-updated notifications, in emission order
RECURSIVE ContextNotifSeq(_, _)
ContextNotifSeq(notifs, i) ==
    IF i > Len(notifs) THEN <<>>
    ELSE IF notifs[i].kind = "contextUpdated"
    THEN <<i>> \o ContextNotifSeq(notifs, i + 1)
    ELSE ContextNotifSeq(notifs, i + 1)

\* the notifications of the outcome w of a FULL ingest: one context-updated
\* per context of the Map, in the order of the Map, carrying the recomputed
\* view as addedLines and nothing as deleted or updated; at most one
\* view-updated, directly followed by the active context's context-updated
FullNotifiesEachContext(w) ==
    LET at == ContextNotifSeq(w.notifs, 1) IN
    /\ Len(at) = Len(ds.contexts)
    /\ \A k \in DOMAIN at :
          LET n == w.notifs[at[k]] IN
          /\ k \in DOMAIN ds.contexts
          /\ n.context = ds.contexts[k].ref
          /\ n.addedLines = w.d.heap[n.context].view
          /\ n.deletedLines = <<>>
          /\ n.updatedLines = <<>>
    /\ Cardinality(ViewNotifs(w.notifs)) <= 1
    /\ \A i \in ViewNotifs(w.notifs) :
          /\ i + 1 \in DOMAIN w.notifs
          /\ w.notifs[i + 1].kind = "contextUpdated"
          /\ w.notifs[i + 1].context = ds.activeContext

\* C30: during one dataUpdated(batch, FULL) every context held by the data
\* source emits exactly one context-updated notification, in context-creation
\* order, whose addedLines is its complete recomputed view and whose
\* deletedLines and updatedLines are empty; a view-updated notification is
\* emitted only for the active context, at most once, and immediately before
\* that context's context-updated notification.
C30_FullNotifiesEachContext ==
    \A batch \in Batches : FullNotifiesEachContext(FullLoaded(batch))

\* the same for the ingests that run to their end without throwing
FullNotifiesUnlessThrown ==
    \A batch \in Batches :
        ~FullLoaded(batch).raised => FullNotifiesEachContext(FullLoaded(batch))

FiltersUpdated(filterValues) == updateContextFilters(Work(ds), filterValues)

\* the outcome w of an updateContextFilters call leaves alone every context
\* that is not the active one, the active one's view and the notification
\* streams when the refresh on filter change is off, and everything when no
\* context is active
UpdateTouchesActiveOnly(w) ==
    /\ \A ref \in DOMAIN ds.heap :
          ref # ds.activeContext =>
              /\ w.d.heap[ref] = ds.heap[ref]
              /\ ContextNotifs(w.notifs, ref) = {}
    /\ ~ds.params.updateViewWhenOnFilterChange /\ ds.activeContext # 0 =>
          /\ w.d.heap[ds.activeContext].view = ds.heap[ds.activeContext].view
          /\ w.notifs = <<>>
    /\ ds.activeContext = 0 =>
          /\ w.errors # <<>>
          /\ w.notifs = <<>>
          /\ w.d = ds

FilterValuesHeld(ctx) ==
    {<<>>} \cup {Merge(SpreadContext(ctx), filterValues) : filterValues \in FilterValuesOffered}

\* the data source with other filter values in one context
WithValuesIn(other, filterValues) == [ds EXCEPT !.heap[other].filterValues = filterValues]

\* the view of the context after an ingest into the data source d
ViewAfter(d, ref, batch, mode) == dataUpdated(Work(d), batch, mode).d.heap[ref].view

\* C32: filter instances are shared by all contexts without leaking values
\* between them: in every full recompute and every delta propagation the view
\* of a context is decided by its own filter values and the records only, so
\* two runs that differ only in the filter values of another context give the
\* context the same view.
C32_OtherValuesDoNotLeak ==
    \A batch \in Batches : \A mode \in {FULL, DELTA_ADD} :
        \A ref \in CtxRefs(ds.contexts) : \A other \in CtxRefs(ds.contexts) \ {ref} :
            \A filterValues \in FilterValuesHeld(ds.heap[other]) :
                ViewAfter(WithValuesIn(other, filterValues), ref, batch, mode)
                    = ViewAfter(ds, ref, batch, mode)

\* C33: dataUpdated(batch, DELTA_ADD) is accepted in every reachable state,
\* also before any FULL ingest: it raises no error and the canonical store
\* afterwards holds every record of the batch under its key.
C33_DeltaIsAlwaysAccepted ==
    \A batch \in Batches :
        /\ ~DeltaAdded(batch).raised
        /\ ~DeltaAdded(batch).d.data.isNull
        /\ \A i \in DOMAIN batch : MapHas(DeltaAdded(batch).d.data.lines, batch[i].id)

\* the same once a FULL ingest has loaded the store, with no filter active
DeltaIsAcceptedOnceLoaded ==
    ~ds.data.isNull /\ ds.filterDef = <<>> =>
        \A batch \in Batches :
            /\ ~DeltaAdded(batch).raised
            /\ \A i \in DOMAIN batch : MapHas(DeltaAdded(batch).d.data.lines, batch[i].id)


Disjoint(a, b) == KeysOf(a) \cap KeysOf(b) = {}

\* C34: in every context-updated notification of a delta propagation,
\* addedLines, updatedLines and deletedLines are pairwise disjoint by primary
\* key, also when the batch holds the same key more than once.
C34_DeltaSetsAreDisjoint ==
    \A batch \in Batches :
        \A i \in DOMAIN DeltaAdded(batch).notifs :
            LET n == DeltaAdded(batch).notifs[i] IN
            n.kind = "contextUpdated" =>
                /\ Disjoint(n.addedLines, n.updatedLines)
                /\ Disjoint(n.addedLines, n.deletedLines)
                /\ Disjoint(n.updatedLines, n.deletedLines)

\* the same for the batches whose keys are pairwise distinct
DeltaSetsAreDisjointForDistinctKeys ==
    \A batch \in Batches :
        DistinctKeys(batch) =>
            \A i \in DOMAIN DeltaAdded(batch).notifs :
                LET n == DeltaAdded(batch).notifs[i] IN
                n.kind = "contextUpdated" =>
                    /\ Disjoint(n.addedLines, n.updatedLines)
                    /\ Disjoint(n.addedLines, n.deletedLines)
                    /\ Disjoint(n.updatedLines, n.deletedLines)


\* position of the key in a view
PositionOf(view, key) == CHOOSE i \in DOMAIN view : view[i].id = key

\* the keys that two views share come in the same order in both
SameOrder(v, u) ==
    \A i, j \in DOMAIN v :
        (i < j /\ MapHas(u, v[i].id) /\ MapHas(u, v[j].id)) =>
            PositionOf(u, v[i].id) < PositionOf(u, v[j].id)

\* the view a full recompute of the context gives in the data source d
RecomputedIn(d, ref) == computeContextView(Work(d), ref)

\* C35: after a delta propagation the iteration order of each context's view
\* is the order a full recompute over the resulting canonical collection
\* would give; a record that enters a view after having been in the store
\* but outside the view is at the position a full recompute gives it.
C35_DeltaKeepsRecomputeOrder ==
    \A batch \in Batches :
        ~DeltaAdded(batch).raised =>
            \A ref \in CtxRefs(ds.contexts) :
                ~RecomputedIn(DeltaAdded(batch).d, ref).raised =>
                    SameOrder(DeltaAdded(batch).d.heap[ref].view,
                              RecomputedIn(DeltaAdded(batch).d, ref).d.heap[ref].view)


\* C36: processLine is idempotent on a line: processing again the line that
\* was processed last in the same interning context leaves the line's column
\* values and the label-id tables unchanged.
C36_ProcessLineIsIdempotent ==
    (zip.registered /\ call.op = "processLine") => processLine(zip, zip.line) = zip

\* the same for the contexts whose definition names a dataTypeKey
ProcessLineIsIdempotentWithDataTypeKey ==
    (/\ zip.registered /\ call.op = "processLine"
     /\ \A i \in DOMAIN zip.params : zip.params[i].dataTypeKey # "") =>
        processLine(zip, zip.line) = zip


LockHeld(s) == KvHas(s.resources.resources, makeKey(ApiType, targetAPI))

\* C37: for any interleaving of language changes and load responses, at most
\* one load request is in flight, the 'api' lock is released after every
\* response, and once no request is in flight the loaded label data is that
\* of the current language or no data is loaded: a language change made
\* while a load is in flight is not lost.
C37_LoadFollowsCurrentLang ==
    /\ Len(lang.inFlight) <= 1
    /\ call.op = "response" => ~LockHeld(lang)
    /\ lang.inFlight = <<>> =>
          lang.data.isNull \/ lang.data = LabelsOf(lang.currentLang)

\* the part of C37 on the lock: one request at a time, the lock held exactly
\* while a request is in flight
OneLoadAtATime ==
    /\ Len(lang.inFlight) <= 1
    /\ LockHeld(lang) <=> lang.inFlight # <<>>


Displayed(r) == <<r.currentRoute, r.currentChild>>

\* what the first route matching the url matches of it, if any does
RECURSIVE MatchedPart(_, _, _)
MatchedPart(routes, url, index) ==
    IF index > Len(routes) THEN Exec(<<"?">>, <<>>)
    ELSE IF Exec(routes[index].route, url).found THEN Exec(routes[index].route, url)
    ELSE MatchedPart(routes, url, index + 1)

\* after route(call.url): a second route(call.url) displays the same route
\* and component, and a route(url) that displays another route has another
\* matched part
RouteAgainChangesNothing ==
    call.op = "route" =>
        /\ Displayed(route(rtr, call.url)) = Displayed(rtr)
        /\ \A url \in URLs :
              route(rtr, url).currentRoute # rtr.currentRoute =>
                  MatchedPart(rtr.routes, url, 1) # MatchedPart(rtr.routes, call.url, 1)

\* C38: route() called again with an unchanged URL leaves the displayed route
\* and the child component unchanged, whether or not a default route is
\* registered; the displayed route changes only when the matched part of the
\* URL changes.
C38_RouteAgainChangesNothing == RouteAgainChangesNothing

\* the same for the routers without default route whose routes never match
\* the same URL together
RouteAgainChangesNothingForDisjointRoutes ==
    (/\ rtr.defaultRouteIndex = 0
     /\ \A url \in URLs : \A i, j \in DOMAIN rtr.routes :
           (Exec(rtr.routes[i].route, url).found /\ Exec(rtr.routes[j].route, url).found)
               => i = j) =>
        RouteAgainChangesNothing


\* rows startRow to min(endRow, rowCount) - 1 of the view (0-based)
RowsAsked(v, startRow, endRow) == Slice(v.view, startRow, GetRows_lastRow(v, endRow))

\* C39: Core_AgGridViewManager.getRows with startRow and endRow hands to
\* successCallback exactly the rows startRow to min(endRow, rowCount) - 1 of
\* the view, never more than endRow - startRow rows, together with the total
\* row count.
C39_GetRowsHandsTheAskedRows ==
    call.op = "getRows" =>
        /\ grid.handed.rows = RowsAsked(grid.v, call.startRow, call.endRow)
        /\ Len(grid.handed.rows) <= call.endRow - call.startRow
        /\ grid.handed.total = Len(grid.v.data)

\* what holds of getRows: from startRow 0 it hands the asked rows, and it
\* always hands the total row count
GetRowsHandsTheAskedRowsFromZero ==
    call.op = "getRows" =>
        /\ call.startRow = 0 =>
              /\ grid.handed.rows = RowsAsked(grid.v, 0, call.endRow)
              /\ Len(grid.handed.rows) <= call.endRow
        /\ grid.handed.total = Len(grid.v.data)


\* the inputs of one burst have started one search, for the last of them
DebounceSearchesLastValue ==
    call.op = "performSearch" =>
        /\ call.value = call.burst[Len(call.burst)]
        /\ ~ac.searchTimeout.armed

\* all the searches issued have completed, several of them having been in
\* flight together
SeveralCompleted == ac.pending = <<>> /\ call.several

\* C40: AutocompleteComponent: inputs arriving within the debounce delay of
\* each other start a single search, for the last value; and when several
\* searches are in flight because a later search started before an earlier
\* asynchronous data-source call resolved, the results held and shown once all
\* of them have completed are those of the most recently issued query.
C40_LatestQueryWins ==
    /\ DebounceSearchesLastValue
    /\ SeveralCompleted => ac.results = call.latest

\* what holds of the results: they are those of the search that completed
\* last, whichever was issued last
LastCompletedWins ==
    call.op = "settle" =>
        \E answer \in AnswersFor(call.value) : ac.results = answer.data

====
